---- MODULE Spec2Model ----
(***************************************************************************)
(* Tempus WR history viewer: the timeline reconstruction of App            *)
(* (src/unnamed/part_000, the `timeline` useMemo and the helpers it        *)
(* calls).                                                                 *)
(*                                                                         *)
(* Units.  Durations are counted in ticks of 0.0001 s, the value of        *)
(* `epsilon` in the source, so that epsilon is 1 tick and the comparisons  *)
(* `a < b - epsilon`, `a > b + epsilon` are exact integer comparisons.     *)
(* Timestamps (Date.parse) are counted in days since 1970-01-01; only      *)
(* their order and their being zero matter to the code modelled here.      *)
(*                                                                         *)
(* Optional values (number | null, NaN) are sequences of length 0 or 1.    *)
(***************************************************************************)
EXTENDS Integers, Sequences, FiniteSets, TLC

VARIABLES
    filtered,         \* the `filtered` row list the memo is computed from
    points,           \* const points: DataPoint[], after the sort
    idx,              \* position of the `for (const point of points)` loop
    current,          \* let current: number | null
    timeline,         \* const timeline: TimelinePoint[]
    i,                \* index of the backward loop (1-based, 0 = finished)
    maxWipeBoundary,  \* let maxWipeBoundary: number | null
    pc,               \* "start" | "forward" | "backward" | "done"
    run,              \* 1 = computed from rows, 2 = recomputed from its output
    firstTimeline,    \* the timeline returned by run 1 (kept for run 2)
    (* a call of one of the module-level functions of part_000 *)
    called,           \* name of the function called, "" before the call
    args,             \* its arguments
    result,           \* its return value
    (* the state of App (useState, lines 86-93) and of its environment *)
    index,            \* IndexData | null
    selectedMap,      \* string | null
    selectedClass,    \* 'Solly' | 'Demo'
    view,             \* 'map' | 'zones'
    selectedZone,     \* string | null
    rows,             \* CsvRow[]
    loading,          \* boolean
    hash,             \* window.location.hash, as its parameters
    fragment,         \* the address fragment the page was opened with
    indexFetch,       \* the catalog fetch: "none" | "pending" | "ok" | "failed"
    csvFetches,       \* the CSV fetches started and not yet settled, oldest first
    lastCsv,          \* the CSV fetch that settled last: its map, class and outcome
    prevCsv,          \* the CSV fetch that settled before that one
    committed,        \* the dependency values of the last commit whose effects ran
    rowsChanged       \* setRows was called since that commit

timelineVars == <<filtered, points, idx, current, timeline, i, maxWipeBoundary, pc,
                  run, firstTimeline>>
callVars == <<called, args, result>>
appVars == <<index, selectedMap, selectedClass, view, selectedZone, rows, loading,
             hash, fragment, indexFetch, csvFetches, lastCsv, prevCsv,
                   committed,
             rowsChanged>>

vars == <<timelineVars, callVars, appVars>>

----------------------------------------------------------------------------
(* Bounds of the checked input families *)

MaxRows == 4        \* rows of a chronological input (Spec)
MaxTick == 4        \* largest seconds part, in ticks, of a chronological input
MaxEvRows == 3      \* rows of an input over all evidence tags (SpecEvidence)
MaxDateRows == 3    \* rows of an input over all date strings (SpecDates)
MaxScenarioRows == 3 \* rows of an input over the scenario's alphabet
MaxParseRows == 2    \* rows of an input over well- and ill-formed fields (SpecParse)
MaxZoneOrder == 12   \* largest number written in a segment text (SpecClassify)
MaxZoneRows == 3     \* rows of a row set over the zone segment texts (SpecZones)
MaxAccount == 20     \* account numbers 0..MaxAccount in legacy identifiers (SpecSteam)
MaxTableRows == 2    \* rows of a rendered table (SpecTable)
MaxOutstanding == 2  \* CSV fetches outstanding at a time (SpecApp, SpecLoad)
MaxCsvLen == 6       \* characters of a CSV text (SpecCsv)

(* Program constants *)

Epsilon == 1              \* const epsilon = 0.0001 (1 tick)
TicksPerSecond == 10000   \* 1 s = 1 / epsilon ticks

----------------------------------------------------------------------------
(* Optional values *)

None == << >>
Some(v) == <<v>>
NaN == << >>

Max(a, b) == IF a >= b THEN a ELSE b

----------------------------------------------------------------------------
(* Date.parse on the date strings used as inputs: days since the epoch, or *)
(* NaN for text that is no date.                                           *)

DateParse(s) ==
    CASE s = "1970-01-01" -> Some(0)
      [] s = "2013-03-01" -> Some(15765)
      [] s = "2013-03-02" -> Some(15766)
      [] s = "2014-07-15" -> Some(16266)
      [] s = "2015-01-01" -> Some(16436)
      [] s = "2016-02-29" -> Some(16860)
      [] OTHER -> NaN

(* parseTimeToSeconds.  A duration string is modelled as the list of its   *)
(* ':'-separated parts, each part the number parseInt / parseFloat reads   *)
(* from it (the last part in ticks) or NaN; "" is the empty list.          *)

parseTimeToSeconds(value) ==
    IF Len(value) = 0 THEN None
    ELSE IF Len(value) < 2 \/ Len(value) > 3 THEN None
    ELSE LET seconds == value[Len(value)]
             minutes == value[Len(value) - 1]
             hours   == IF Len(value) = 3 THEN value[1] ELSE Some(0)
         IN  IF seconds = NaN \/ minutes = NaN \/ hours = NaN THEN None
             ELSE Some(hours[1] * 3600 * TicksPerSecond
                       + minutes[1] * 60 * TicksPerSecond
                       + seconds[1])

(* String.prototype.trim().toLowerCase() on the evidence strings used as   *)
(* inputs.                                                                 *)

TrimLower(s) ==
    CASE s = " IRC_SET " -> "irc_set"
      [] OTHER -> s

(* Variants: the source check forgotten; announcements never a trigger *)
isWipeBoundaryTrigger_AnySource(row) ==
    LET evidence == TrimLower(row.evidence)
    IN  evidence = "record" \/ evidence = "announcement"

isWipeBoundaryTrigger_RecordOnly(row) ==
    TrimLower(row.evidence) = "record"

isWipeBoundaryTrigger(row) ==
    LET evidence == TrimLower(row.evidence)
        source   == TrimLower(row.evidence_source)
    IN  \/ evidence = "record"
        \/ (evidence = "announcement" /\ source = "irc_set")

----------------------------------------------------------------------------
(* filtered.map(...).filter(Boolean): one DataPoint per row whose date     *)
(* parses to a truthy number and whose duration parses.                    *)

RowOf(p) ==
    [date |-> p.date, record_time |-> p.record_time,
     evidence |-> p.evidence, evidence_source |-> p.evidence_source]

IsValidRow(row) ==
    LET dateValue == DateParse(row.date)
        recordSeconds == parseTimeToSeconds(row.record_time)
    IN  ~(dateValue = NaN \/ dateValue = Some(0) \/ recordSeconds = None)

DataPoint(row, rowIndex) ==
    [date |-> row.date, record_time |-> row.record_time,
     evidence |-> row.evidence, evidence_source |-> row.evidence_source,
     rowIndex |-> rowIndex,
     dateValue |-> DateParse(row.date)[1],
     recordSeconds |-> parseTimeToSeconds(row.record_time)[1]]

RECURSIVE MakePoints(_, _)
MakePoints(rowList, k) ==
    IF k > Len(rowList) THEN << >>
    ELSE IF IsValidRow(rowList[k])
         THEN <<DataPoint(rowList[k], k - 1)>> \o MakePoints(rowList, k + 1)
         ELSE MakePoints(rowList, k + 1)

(* points.sort((a, b) => a.dateValue - b.dateValue || a.rowIndex - b.rowIndex) *)

(* Variants: the tie-break reversed; the dates compared the wrong way round *)
ComparePoints_TieReversed(a, b) ==
    IF a.dateValue - b.dateValue # 0
    THEN a.dateValue - b.dateValue
    ELSE b.rowIndex - a.rowIndex

ComparePoints_Descending(a, b) ==
    IF b.dateValue - a.dateValue # 0
    THEN b.dateValue - a.dateValue
    ELSE a.rowIndex - b.rowIndex

ComparePoints(a, b) ==
    IF a.dateValue - b.dateValue # 0
    THEN a.dateValue - b.dateValue
    ELSE a.rowIndex - b.rowIndex

RECURSIVE InsertPoint(_, _)
InsertPoint(sorted, p) ==
    IF sorted = << >> THEN <<p>>
    ELSE IF ComparePoints(sorted[Len(sorted)], p) <= 0
         THEN Append(sorted, p)
         ELSE Append(InsertPoint(SubSeq(sorted, 1, Len(sorted) - 1), p),
                     sorted[Len(sorted)])

RECURSIVE SortFrom(_, _, _)
SortFrom(ps, k, acc) ==
    IF k > Len(ps) THEN acc
    ELSE SortFrom(ps, k + 1, InsertPoint(acc, ps[k]))

(* Variant: the sort left out *)
SortPoints_Unsorted(ps) == ps

SortPoints(ps) == SortFrom(ps, 1, << >>)

----------------------------------------------------------------------------
(* The forward pass *)

TimelinePoint(point, wipedBoundary) ==
    [date |-> point.date, record_time |-> point.record_time,
     evidence |-> point.evidence, evidence_source |-> point.evidence_source,
     rowIndex |-> point.rowIndex, dateValue |-> point.dateValue,
     recordSeconds |-> point.recordSeconds,
     wiped |-> FALSE, wipedBoundary |-> wipedBoundary]

(* Variant: only trigger rows count as improvements *)
IsImprovement_TriggerOnly(point, cur) ==
    isWipeBoundaryTrigger(point) /\ point.recordSeconds < cur - Epsilon

IsImprovement(point, cur) == point.recordSeconds < cur - Epsilon

IsWipeBoundary(point, cur) ==
    isWipeBoundaryTrigger(point) /\ point.recordSeconds > cur + Epsilon

(* The backward pass: the new maxWipeBoundary and the wiped flag at a point *)

(* Variant: Math.max forgotten, the boundary just visited wins *)
NextMaxWipeBoundary_Latest(point, maxWB) ==
    IF point.wipedBoundary THEN Some(point.recordSeconds) ELSE maxWB

NextMaxWipeBoundary(point, maxWB) ==
    IF point.wipedBoundary
    THEN IF maxWB = None THEN Some(point.recordSeconds)
         ELSE Some(Max(maxWB[1], point.recordSeconds))
    ELSE maxWB

(* Variants: <= without the tolerance; < without the tolerance *)
IsWiped_AtMost(point, maxWB) ==
    maxWB # None /\ point.recordSeconds <= maxWB[1]

IsWiped_NoTolerance(point, maxWB) ==
    maxWB # None /\ point.recordSeconds < maxWB[1]

(* Variants: no point is ever wiped; the tolerance added instead of taken off *)
IsWiped_Never(point, maxWB) == FALSE

IsWiped_TolerancePlus(point, maxWB) ==
    maxWB # None /\ point.recordSeconds < maxWB[1] + Epsilon

IsWiped(point, maxWB) ==
    maxWB # None /\ point.recordSeconds < maxWB[1] - Epsilon

(* Variant: a wiped point is removed instead of flagged *)
SetWiped_Delete(tl, k, wiped) ==
    IF wiped THEN SubSeq(tl, 1, k - 1) \o SubSeq(tl, k + 1, Len(tl)) ELSE tl

SetWiped(tl, k, wiped) == [tl EXCEPT ![k] = [tl[k] EXCEPT !.wiped = wiped]]

----------------------------------------------------------------------------
(* Actions *)

BuildPoints ==
    /\ pc = "start"
    /\ points' = SortPoints(MakePoints(filtered, 1))
    /\ current' = None
    /\ timeline' = << >>
    /\ idx' = 1
    /\ pc' = "forward"
    /\ UNCHANGED <<filtered, i, maxWipeBoundary, run, firstTimeline>>
    /\ UNCHANGED <<callVars, appVars>>

ForwardFirst ==
    /\ pc = "forward" /\ idx <= Len(points)
    /\ current = None
    /\ current' = Some(points[idx].recordSeconds)
    /\ timeline' = Append(timeline, TimelinePoint(points[idx], FALSE))
    /\ idx' = idx + 1
    /\ UNCHANGED <<filtered, points, i, maxWipeBoundary, pc, run, firstTimeline>>
    /\ UNCHANGED <<callVars, appVars>>

ForwardImprove ==
    /\ pc = "forward" /\ idx <= Len(points)
    /\ current # None
    /\ IsImprovement(points[idx], current[1])
    /\ current' = Some(points[idx].recordSeconds)
    /\ timeline' = Append(timeline, TimelinePoint(points[idx], FALSE))
    /\ idx' = idx + 1
    /\ UNCHANGED <<filtered, points, i, maxWipeBoundary, pc, run, firstTimeline>>
    /\ UNCHANGED <<callVars, appVars>>

ForwardBoundary ==
    /\ pc = "forward" /\ idx <= Len(points)
    /\ current # None
    /\ ~IsImprovement(points[idx], current[1])
    /\ IsWipeBoundary(points[idx], current[1])
    /\ current' = Some(points[idx].recordSeconds)
    /\ timeline' = Append(timeline, TimelinePoint(points[idx], TRUE))
    /\ idx' = idx + 1
    /\ UNCHANGED <<filtered, points, i, maxWipeBoundary, pc, run, firstTimeline>>
    /\ UNCHANGED <<callVars, appVars>>

ForwardDrop ==
    /\ pc = "forward" /\ idx <= Len(points)
    /\ current # None
    /\ ~IsImprovement(points[idx], current[1])
    /\ ~IsWipeBoundary(points[idx], current[1])
    /\ idx' = idx + 1
    /\ UNCHANGED <<filtered, points, current, timeline, i, maxWipeBoundary, pc,
                   run, firstTimeline>>
    /\ UNCHANGED <<callVars, appVars>>

StartBackward ==
    /\ pc = "forward" /\ idx > Len(points)
    /\ maxWipeBoundary' = None
    /\ i' = Len(timeline)
    /\ pc' = "backward"
    /\ UNCHANGED <<filtered, points, idx, current, timeline, run, firstTimeline>>
    /\ UNCHANGED <<callVars, appVars>>

BackwardStep ==
    /\ pc = "backward" /\ i >= 1
    /\ maxWipeBoundary' = NextMaxWipeBoundary(timeline[i], maxWipeBoundary)
    /\ timeline' = SetWiped(timeline, i, IsWiped(timeline[i], maxWipeBoundary'))
    /\ i' = i - 1
    /\ UNCHANGED <<filtered, points, idx, current, pc, run, firstTimeline>>
    /\ UNCHANGED <<callVars, appVars>>

Return ==
    /\ pc = "backward" /\ i = 0
    /\ pc' = "done"
    /\ UNCHANGED <<filtered, points, idx, current, timeline, i, maxWipeBoundary,
                   run, firstTimeline>>
    /\ UNCHANGED <<callVars, appVars>>

(* The memo recomputed with its own output as the row list *)
Rerun ==
    /\ pc = "done" /\ run = 1
    /\ firstTimeline' = timeline
    /\ filtered' = [k \in 1..Len(timeline) |-> RowOf(timeline[k])]
    /\ run' = 2
    /\ points' = << >>
    /\ idx' = 1
    /\ current' = None
    /\ timeline' = << >>
    /\ i' = 0
    /\ maxWipeBoundary' = None
    /\ pc' = "start"
    /\ UNCHANGED <<callVars, appVars>>


Next ==
    \/ BuildPoints
    \/ ForwardFirst
    \/ ForwardImprove
    \/ ForwardBoundary
    \/ ForwardDrop
    \/ StartBackward
    \/ BackwardStep
    \/ Return

NextRerun == Next \/ Rerun

----------------------------------------------------------------------------
(* Input families *)

Duration(minutes, ticks) == <<Some(minutes), Some(ticks)>>

Row(date, time, tag) ==
    [date |-> date, record_time |-> time,
     evidence |-> tag[1], evidence_source |-> tag[2]]

ValidDates == <<"2013-03-01", "2013-03-02", "2014-07-15", "2015-01-01", "2016-02-29">>

ChronoTimes == {Duration(0, t) : t \in 0..MaxTick}
ChronoTags == {<<"record", "">>, <<"observed", "">>}

EvidenceTimes == {Duration(0, 0), Duration(0, 1), Duration(0, 3)}
EvidenceTags ==
    {<<"record", "">>, <<"announcement", "irc_set">>, <<"announcement", " IRC_SET ">>,
     <<"announcement", "irc_say">>, <<"command", "irc_set">>, <<"observed", "">>}

ScenarioTimes == {Duration(0, 55 * TicksPerSecond), Duration(1, 0),
                  Duration(1, 5 * TicksPerSecond)}
ScenarioTags == {<<"record", "">>, <<"announcement", "irc_set">>}

DateStrings == {"", "1970-01-01", "2013-03-01", "2013-03-02"}
DateTimes == {<< >>, Duration(0, 0), Duration(0, 3)}
DateTags == {<<"record", "">>, <<"observed", "">>}

(* No module-level function has been called *)
NoCall ==
    /\ called = ""
    /\ args = << >>
    /\ result = << >>

(* window.location.hash without any parameter *)
NoHash == [map |-> None, class |-> None, view |-> None, zone |-> None]

(* App as constructed, before its first effects, opened at the fragment h *)
AppInitial(h) ==
    /\ index = None
    /\ selectedMap = None
    /\ selectedClass = "Solly"
    /\ view = "map"
    /\ selectedZone = None
    /\ rows = << >>
    /\ loading = FALSE
    /\ hash = h
    /\ fragment = h
    /\ indexFetch = "none"
    /\ csvFetches = << >>
    /\ lastCsv = None
    /\ prevCsv = None
    /\ committed = None
    /\ rowsChanged = FALSE

(* The memo outside a call: nothing filtered, nothing computed *)
TimelineIdle ==
    /\ filtered = << >>
    /\ points = << >>
    /\ idx = 1
    /\ current = None
    /\ timeline = << >>
    /\ i = 0
    /\ maxWipeBoundary = None
    /\ pc = "idle"
    /\ run = 1
    /\ firstTimeline = << >>

(* The state at entry of the memo, computed from the row list `rowList` *)
InitWith(rowList) ==
    /\ filtered = rowList
    /\ points = << >>
    /\ idx = 1
    /\ current = None
    /\ timeline = << >>
    /\ i = 0
    /\ maxWipeBoundary = None
    /\ pc = "start"
    /\ run = 1
    /\ firstTimeline = << >>
    /\ NoCall
    /\ AppInitial(NoHash)

(* A chronological input of up to n rows: row k carries the k-th date *)
InitChrono(n, times, tags) ==
    \E m \in 0..n : \E f \in [1..m -> times \X tags] :
        InitWith([k \in 1..m |-> Row(ValidDates[k], f[k][1], f[k][2])])

Init == InitChrono(MaxRows, ChronoTimes, ChronoTags)
InitEvidence == InitChrono(MaxEvRows, EvidenceTimes, EvidenceTags)
InitScenario == InitChrono(MaxScenarioRows, ScenarioTimes, ScenarioTags)

(* An input of up to MaxDateRows rows over all date strings *)
InitDates ==
    \E m \in 0..MaxDateRows :
        \E f \in [1..m -> DateStrings \X DateTimes \X DateTags] :
            InitWith([k \in 1..m |-> Row(f[k][1], f[k][2], f[k][3])])

Spec == Init /\ [][Next]_vars
SpecEvidence == InitEvidence /\ [][Next]_vars
SpecScenario == InitScenario /\ [][Next]_vars
SpecDates == InitDates /\ [][Next]_vars
SpecRerun == InitDates /\ [][NextRerun]_vars

----------------------------------------------------------------------------
(* Helpers of the properties below *)

Before(a, b) ==
    \/ a.dateValue < b.dateValue
    \/ (a.dateValue = b.dateValue /\ a.rowIndex < b.rowIndex)

(* The step appends one point made from p, flagged wb, and nothing else *)
Emits(p, wb) ==
    /\ Len(timeline') = Len(timeline) + 1
    /\ SubSeq(timeline', 1, Len(timeline)) = timeline
    /\ LET q == timeline'[Len(timeline')]
       IN  /\ RowOf(q) = RowOf(p)
           /\ q.rowIndex = p.rowIndex
           /\ q.recordSeconds = p.recordSeconds
           /\ q.wipedBoundary = wb

AtRowAfterFirst == pc = "forward" /\ idx <= Len(points) /\ idx > 1 /\ current # None

TriggerByEvidence(row) ==
    \/ TrimLower(row.evidence) = "record"
    \/ /\ TrimLower(row.evidence) = "announcement"
       /\ TrimLower(row.evidence_source) = "irc_set"

BoundariesAfter(k) ==
    {j \in (k + 1)..Len(timeline) : timeline[j].wipedBoundary}

MaxBoundaryAfter(k) ==
    CHOOSE m \in {timeline[j].recordSeconds : j \in BoundariesAfter(k)} :
        \A j \in BoundariesAfter(k) : timeline[j].recordSeconds <= m

----------------------------------------------------------------------------
(* C1: the timeline is ordered by dateValue non-decreasing, points with    *)
(* equal dateValue appear in ascending rowIndex, and rowIndex is the       *)
(* point's position in the input row list.                                 *)
C1_TimelineOrdered ==
    /\ \A a, b \in 1..Len(timeline) : a < b => Before(timeline[a], timeline[b])
    /\ \A a \in 1..Len(timeline) :
          /\ timeline[a].rowIndex + 1 \in 1..Len(filtered)
          /\ RowOf(timeline[a]) = filtered[timeline[a].rowIndex + 1]
          /\ Some(timeline[a].dateValue) = DateParse(timeline[a].date)

C1_Witness ==
    /\ pc = "done"
    /\ Len(timeline) = 3
    /\ timeline[1].dateValue = timeline[2].dateValue
    /\ timeline[2].dateValue < timeline[3].dateValue
    /\ timeline[3].rowIndex = 0

(* C2: in the forward pass a row after the first whose time is below       *)
(* current-best by more than epsilon is emitted with wipedBoundary = false *)
(* whatever its evidence, and current-best becomes its time.               *)
C2_ImprovementEmitted ==
    [][ (AtRowAfterFirst /\ points[idx].recordSeconds + Epsilon < current[1])
        => /\ Emits(points[idx], FALSE)
           /\ current' = Some(points[idx].recordSeconds) ]_vars

C2_Witness ==
    /\ pc = "forward"
    /\ Len(timeline) = 2
    /\ timeline[2].evidence = "command"
    /\ ~timeline[2].wipedBoundary
    /\ timeline[2].recordSeconds + Epsilon < timeline[1].recordSeconds
    /\ current = Some(timeline[2].recordSeconds)

(* C3: a row after the first that is no improvement is emitted only when   *)
(* it is a trigger (evidence record, or announcement from irc_set, compared*)
(* after trimming and lower-casing) and its time exceeds current-best by   *)
(* more than epsilon; it is then emitted with wipedBoundary = true and     *)
(* current-best becomes its time.  Every other such row is dropped and     *)
(* leaves the timeline and current-best unchanged.                         *)
C3_BoundaryOrDropped ==
    [][ (AtRowAfterFirst /\ ~(points[idx].recordSeconds + Epsilon < current[1]))
        => IF /\ TriggerByEvidence(points[idx])
              /\ points[idx].recordSeconds > current[1] + Epsilon
           THEN /\ Emits(points[idx], TRUE)
                /\ current' = Some(points[idx].recordSeconds)
           ELSE /\ timeline' = timeline
                /\ current' = current ]_vars

C3_Witness ==
    /\ pc = "forward"
    /\ idx = 4
    /\ Len(timeline) = 2
    /\ timeline[2].wipedBoundary
    /\ timeline[2].evidence = "announcement"
    /\ timeline[2].rowIndex = 2
    /\ current = Some(timeline[2].recordSeconds)
    /\ points[2].evidence = "announcement"
    /\ points[2].evidence_source = "irc_say"
    /\ points[2].recordSeconds > timeline[1].recordSeconds + Epsilon

(* C4: after the backward pass a point is wiped exactly when some          *)
(* wipe-boundary point at the same or a later position has a time greater  *)
(* than the point's own time by more than epsilon.                         *)
C4_WipedIffLaterBoundary ==
    pc \in {"backward", "done"} =>
        \A k \in (i + 1)..Len(timeline) :
            timeline[k].wiped <=>
                \E j \in k..Len(timeline) :
                    /\ timeline[j].wipedBoundary
                    /\ timeline[j].recordSeconds > timeline[k].recordSeconds + Epsilon

C4_Witness ==
    /\ pc = "done"
    /\ \E a, b, c \in 1..Len(timeline) :
          /\ a < b /\ b < c
          /\ ~timeline[a].wiped
          /\ timeline[b].wiped
          /\ timeline[c].wipedBoundary

(* C5 as stated: for any A before B in the final timeline, B a wipe        *)
(* boundary and A wiped imply A's time strictly below B's time.            *)
C5_Original ==
    pc = "done" =>
        \A a, b \in 1..Len(timeline) :
            (a < b /\ timeline[b].wipedBoundary /\ timeline[a].wiped)
                => timeline[a].recordSeconds < timeline[b].recordSeconds

(* C5 amended: every wiped point A of the final timeline is followed by a  *)
(* wipe boundary, and A's time is below the greatest time among the wipe   *)
(* boundaries after A by more than epsilon.                                *)
C5_WipedBelowMaxLaterBoundary ==
    pc = "done" =>
        \A a \in 1..Len(timeline) :
            timeline[a].wiped =>
                /\ BoundariesAfter(a) # {}
                /\ timeline[a].recordSeconds + Epsilon < MaxBoundaryAfter(a)

C5_Witness ==
    /\ pc = "done"
    /\ \E a, b \in 1..Len(timeline) :
          /\ a < b
          /\ timeline[a].wiped
          /\ timeline[b].wipedBoundary
          /\ timeline[b].recordSeconds <= timeline[a].recordSeconds

(* C6 as stated: for [(d1, 60 s, record), (d2, 55 s, record), (d3, 65 s,   *)
(* announcement/irc_set)] all three points are emitted, the third is a     *)
(* wipe boundary, the second is wiped and the first is not wiped.          *)
ScenarioInput ==
    << Row(ValidDates[1], Duration(1, 0), <<"record", "">>),
       Row(ValidDates[2], Duration(0, 55 * TicksPerSecond), <<"record", "">>),
       Row(ValidDates[3], Duration(1, 5 * TicksPerSecond), <<"announcement", "irc_set">>) >>

ScenarioEmitted ==
    /\ Len(timeline) = 3
    /\ \A k \in 1..3 : RowOf(timeline[k]) = ScenarioInput[k]
    /\ timeline[1].recordSeconds = 60 * TicksPerSecond
    /\ timeline[2].recordSeconds = 55 * TicksPerSecond
    /\ timeline[3].recordSeconds = 65 * TicksPerSecond
    /\ ~timeline[1].wipedBoundary
    /\ ~timeline[2].wipedBoundary
    /\ timeline[3].wipedBoundary
    /\ timeline[2].wiped
    /\ ~timeline[3].wiped

C6_Original ==
    (pc = "done" /\ filtered = ScenarioInput) =>
        (ScenarioEmitted /\ ~timeline[1].wiped)

(* C6 amended: for that input all three points are emitted, the third is a *)
(* wipe boundary and is not wiped, and both the second (55 s) and the      *)
(* first (60 s) are wiped, each being below 65 s.                          *)
C6_ScenarioFlags ==
    (pc = "done" /\ filtered = ScenarioInput) =>
        (ScenarioEmitted /\ timeline[1].wiped)

C6_Witness ==
    /\ pc = "done"
    /\ filtered = ScenarioInput
    /\ Len(timeline) = 3
    /\ timeline[1].wiped

(* C7: recomputing the timeline from its own output yields the same points *)
(* in the same order with the same wiped and wipedBoundary flags (rowIndex,*)
(* the position in the input, is renumbered).                              *)
SansRowIndex(p) ==
    [row |-> RowOf(p), dateValue |-> p.dateValue, recordSeconds |-> p.recordSeconds,
     wiped |-> p.wiped, wipedBoundary |-> p.wipedBoundary]

C7_Fixpoint ==
    (run = 2 /\ pc = "done") =>
        /\ Len(timeline) = Len(firstTimeline)
        /\ \A k \in 1..Len(timeline) :
              /\ SansRowIndex(timeline[k]) = SansRowIndex(firstTimeline[k])
              /\ timeline[k].rowIndex = k - 1

C7_Witness ==
    /\ run = 2 /\ pc = "done"
    /\ Len(timeline) = 2
    /\ timeline[1].wiped
    /\ timeline[2].wipedBoundary
    /\ timeline[1].dateValue = timeline[2].dateValue
    /\ firstTimeline[2].rowIndex = 2

(* C8: a row after the first whose time differs from current-best by at    *)
(* most epsilon is not emitted, trigger or not, and leaves current-best    *)
(* alone; a point whose time is within epsilon of the greatest boundary    *)
(* time at or after it is not wiped.                                       *)
BoundariesFrom(k) == {j \in k..Len(timeline) : timeline[j].wipedBoundary}

MaxBoundaryFrom(k) ==
    CHOOSE m \in {timeline[j].recordSeconds : j \in BoundariesFrom(k)} :
        \A j \in BoundariesFrom(k) : timeline[j].recordSeconds <= m

Within(a, b) == a - b <= Epsilon /\ b - a <= Epsilon

C8_WithinEpsilonIsATie ==
    /\ [][ (AtRowAfterFirst /\ Within(points[idx].recordSeconds, current[1]))
           => (timeline' = timeline /\ current' = current) ]_vars
    /\ [](pc = "done" =>
            \A k \in 1..Len(timeline) :
                (/\ BoundariesFrom(k) # {}
                 /\ Within(timeline[k].recordSeconds, MaxBoundaryFrom(k)))
                    => ~timeline[k].wiped)

C8_Witness ==
    /\ pc = "done"
    /\ Len(points) = 4
    /\ Len(timeline) = 3
    /\ timeline[3].wipedBoundary
    /\ timeline[3].recordSeconds = timeline[1].recordSeconds + Epsilon
    /\ ~timeline[1].wiped
    /\ points[4].evidence = "record"
    /\ points[4].recordSeconds = timeline[3].recordSeconds - Epsilon

(* C9 as stated: when the input has a valid row, the earliest valid row    *)
(* (by date, then by input position) is the first point of the final       *)
(* timeline, with wiped = false and wipedBoundary = false.                 *)
ValidRows == {k \in 1..Len(filtered) : IsValidRow(filtered[k])}

EarliestValid ==
    CHOOSE k \in ValidRows :
        \A j \in ValidRows :
            LET dk == DateParse(filtered[k].date)[1]
                dj == DateParse(filtered[j].date)[1]
            IN  dk < dj \/ (dk = dj /\ k <= j)

FirstIsEarliestValid ==
    /\ Len(timeline) >= 1
    /\ RowOf(timeline[1]) = filtered[EarliestValid]
    /\ timeline[1].rowIndex = EarliestValid - 1
    /\ ~timeline[1].wipedBoundary

C9_Original ==
    (pc = "done" /\ ValidRows # {}) =>
        (FirstIsEarliestValid /\ ~timeline[1].wiped)

(* C9 amended: when the input has a valid row, the earliest valid row is   *)
(* the first point of the timeline with wipedBoundary = false, whatever    *)
(* its evidence; it has wiped = false throughout the forward pass, and in  *)
(* the final timeline it is wiped exactly when a later wipe-boundary point *)
(* has a time greater than its own by more than epsilon.                   *)
C9_FirstValidRowFirst ==
    (ValidRows # {} /\ (pc \in {"backward", "done"} \/ (pc = "forward" /\ idx > 1))) =>
        /\ FirstIsEarliestValid
        /\ (pc = "forward" => ~timeline[1].wiped)
        /\ (pc = "done" =>
              (timeline[1].wiped <=>
                 \E j \in 2..Len(timeline) :
                    /\ timeline[j].wipedBoundary
                    /\ timeline[j].recordSeconds > timeline[1].recordSeconds + Epsilon))

C9_Witness ==
    /\ pc = "done"
    /\ Len(timeline) >= 2
    /\ timeline[1].wiped
    /\ timeline[1].evidence = "observed"
    /\ timeline[1].rowIndex = 2
    /\ ~IsValidRow(filtered[1])

(* C10: the backward pass keeps every point: each of its steps leaves the  *)
(* timeline with the same length and order and, at every position, the     *)
(* same fields other than wiped (wipedBoundary included).                  *)
SansWiped(p) ==
    [row |-> RowOf(p), rowIndex |-> p.rowIndex, dateValue |-> p.dateValue,
     recordSeconds |-> p.recordSeconds, wipedBoundary |-> p.wipedBoundary]

C10_BackwardKeepsPoints ==
    [][ pc = "backward" =>
          /\ Len(timeline') = Len(timeline)
          /\ \A k \in 1..Len(timeline) :
                SansWiped(timeline'[k]) = SansWiped(timeline[k]) ]_vars

C10_Witness ==
    /\ pc = "done"
    /\ Len(timeline) = 4
    /\ timeline[1].wiped
    /\ timeline[2].wipedBoundary /\ timeline[2].wiped
    /\ timeline[3].wiped
    /\ timeline[4].wipedBoundary

----------------------------------------------------------------------------
(* Inputs over well-formed and ill-formed dates and durations              *)

ParseDates == {"not a date", "1970-01-01", "2013-03-01"}

ParseTimes ==
    { << >>,                                  \* ''
      <<Some(3)>>,                            \* one part
      <<NaN, Some(3)>>,                       \* minutes not a number
      <<Some(0), NaN>>,                       \* seconds not a number
      <<Some(0), Some(0), Some(0), Some(3)>>, \* four parts
      Duration(0, 1),                         \* MM:SS.ff
      <<Some(0), Some(0), Some(3)>> }         \* H:MM:SS.ff

ParseTags == {<<"record", "">>, <<"observed", "">>}

InitParse ==
    \E m \in 0..MaxParseRows :
        \E f \in [1..m -> ParseDates \X ParseTimes \X ParseTags] :
            InitWith([k \in 1..m |-> Row(f[k][1], f[k][2], f[k][3])])

SpecParse == InitParse /\ [][Next]_vars

(* The row at decode index k (0-based) takes part in the sort and the      *)
(* forward pass                                                            *)
TakesPart(k) == \E n \in 1..Len(points) : points[n].rowIndex = k

(* C11: once the points are built, a filtered row is absent from them      *)
(* exactly when its date or its record_time cannot be parsed; every row    *)
(* with a parseable date and a parseable duration is among the points.     *)
C11_ExcludedIffUnparseable ==
    pc # "start" =>
        \A k \in 1..Len(filtered) :
            TakesPart(k - 1) <=>
                /\ DateParse(filtered[k].date) # NaN
                /\ parseTimeToSeconds(filtered[k].record_time) # None

----------------------------------------------------------------------------
(* Text.  A string the code inspects character by character is a sequence  *)
(* of one-character strings; a string it only builds or compares is a      *)
(* string.                                                                 *)

WhiteSpace == {" ", "\t", "\n", "\r"}
IsSpace(c) == c \in WhiteSpace

DigitChars == <<"0", "1", "2", "3", "4", "5", "6", "7", "8", "9">>
IsDigit(c) == \E d \in 1..Len(DigitChars) : DigitChars[d] = c
DigitValue(c) == (CHOOSE d \in 1..Len(DigitChars) : DigitChars[d] = c) - 1

UpperCase == <<"A", "B", "C", "D", "E", "F", "G", "H", "I", "J", "K", "L", "M",
               "N", "O", "P", "Q", "R", "S", "T", "U", "V", "W", "X", "Y", "Z">>
LowerCase == <<"a", "b", "c", "d", "e", "f", "g", "h", "i", "j", "k", "l", "m",
               "n", "o", "p", "q", "r", "s", "t", "u", "v", "w", "x", "y", "z">>

(* The /i flag: characters are compared after case folding *)
toLowerCase(c) ==
    IF \E k \in 1..Len(UpperCase) : UpperCase[k] = c
    THEN LowerCase[CHOOSE k \in 1..Len(UpperCase) : UpperCase[k] = c]
    ELSE c

(* \s* and \d* from position k on: the length of the longest run *)
RECURSIVE SpaceRun(_, _)
SpaceRun(s, k) ==
    IF k <= Len(s) /\ IsSpace(s[k]) THEN 1 + SpaceRun(s, k + 1) ELSE 0

RECURSIVE DigitRun(_, _)
DigitRun(s, k) ==
    IF k <= Len(s) /\ IsDigit(s[k]) THEN 1 + DigitRun(s, k + 1) ELSE 0

(* The length of the whitespace run that ends at position k *)
RECURSIVE SpaceRunBack(_, _)
SpaceRunBack(s, k) ==
    IF k >= 1 /\ IsSpace(s[k]) THEN 1 + SpaceRunBack(s, k - 1) ELSE 0

(* String.prototype.trim *)
trim(s) ==
    LET lead == SpaceRun(s, 1)
    IN  IF lead = Len(s) THEN << >>
        ELSE SubSeq(s, lead + 1, Len(s) - SpaceRunBack(s, Len(s)))

(* Number.parseInt(digits, 10) of a run of decimal digits *)
RECURSIVE parseInt(_)
parseInt(digits) ==
    IF digits = << >> THEN 0
    ELSE parseInt(SubSeq(digits, 1, Len(digits) - 1)) * 10
             + DigitValue(digits[Len(digits)])

(* The string made of the characters of s *)
RECURSIVE Join(_)
Join(s) == IF s = << >> THEN "" ELSE s[1] \o Join(Tail(s))

StartsWithIgnoreCase(s, word) ==
    /\ Len(s) >= Len(word)
    /\ \A k \in 1..Len(word) : toLowerCase(s[k]) = toLowerCase(word[k])

EndsWithIgnoreCase(s, word) ==
    /\ Len(s) >= Len(word)
    /\ \A k \in 1..Len(word) :
          toLowerCase(s[Len(s) - Len(word) + k]) = toLowerCase(word[k])

----------------------------------------------------------------------------
(* getZoneInfo: the zone a segment text names                              *)

BonusWord == <<"B", "o", "n", "u", "s">>
CourseWord == <<"C", "o", "u", "r", "s", "e">>
FirstWord == <<"F", "i", "r", "s", "t">>

(* /^<word>\s+(\d+)/i: the digits captured, or no match *)
MatchWordNumber(s, word) ==
    IF ~StartsWithIgnoreCase(s, word) THEN None
    ELSE LET spaces == SpaceRun(s, Len(word) + 1)
             digits == DigitRun(s, Len(word) + 1 + spaces)
         IN  IF spaces >= 1 /\ digits >= 1
             THEN Some(SubSeq(s, Len(word) + 1 + spaces,
                                 Len(word) + spaces + digits))
             ELSE None

(* /^C(\d+)/i *)
MatchSegmentIndex(s) ==
    IF StartsWithIgnoreCase(s, <<"C">>) /\ DigitRun(s, 2) >= 1
    THEN Some(SubSeq(s, 2, 1 + DigitRun(s, 2)))
    ELSE None

(* /^C(\d+)\s*-\s*(.+)$/i: the two groups captured, or no match.  The      *)
(* second \s* is greedy and gives one character back when nothing else is  *)
(* left for (.+).                                                          *)
MatchSegmentName(s) ==
    IF MatchSegmentIndex(s) = None THEN None
    ELSE LET digits == DigitRun(s, 2)
             dashAt == 2 + digits + SpaceRun(s, 2 + digits)
             spaces == SpaceRun(s, dashAt + 1)
             restAt == dashAt + 1 + spaces
         IN  IF dashAt > Len(s) \/ s[dashAt] # "-" THEN None
             ELSE IF restAt <= Len(s)
                  THEN Some(<<SubSeq(s, 2, 1 + digits),
                              SubSeq(s, restAt, Len(s))>>)
                  ELSE IF spaces >= 1
                       THEN Some(<<SubSeq(s, 2, 1 + digits),
                                   SubSeq(s, Len(s), Len(s))>>)
                       ELSE None

(* Variant: the name is kept as captured *)
sanitizeSegmentName_KeepFirst(value) == trim(value)

(* value.trim().replace(/\s+First$/i, '').trim() *)
sanitizeSegmentName(value) ==
    LET trimmed == trim(value)
        at == Len(trimmed) - Len(FirstWord)
    IN  IF EndsWithIgnoreCase(trimmed, FirstWord)
           /\ at >= 1 /\ IsSpace(trimmed[at])
        THEN trim(SubSeq(trimmed, 1, at - SpaceRunBack(trimmed, at)))
        ELSE trim(trimmed)

ZoneInfo(id, label, kind, order) ==
    [id |-> id, label |-> label, kind |-> kind, order |-> order]

getZoneInfo(source) ==
    IF source = << >> THEN None
    ELSE LET trimmed == trim(source)
             bonusMatch == MatchWordNumber(trimmed, BonusWord)
             courseMatch == MatchWordNumber(trimmed, CourseWord)
             segmentMatch == MatchSegmentName(trimmed)
             segmentIndexMatch == MatchSegmentIndex(trimmed)
         IN  IF trimmed = << >> THEN None
             ELSE IF bonusMatch # None
             THEN LET order == parseInt(bonusMatch[1])
                  IN  Some(ZoneInfo("bonus-" \o ToString(order),
                                    "Bonus " \o ToString(order), "bonus", order))
             ELSE IF courseMatch # None
             THEN LET order == parseInt(courseMatch[1])
                  IN  Some(ZoneInfo("course-" \o ToString(order),
                                    "Course " \o ToString(order), "course", order))
             ELSE IF segmentMatch # None
             THEN LET order == parseInt(segmentMatch[1][1])
                      name == Join(sanitizeSegmentName(segmentMatch[1][2]))
                      label == IF name # ""
                               THEN "C" \o ToString(order) \o " - " \o name
                               ELSE "C" \o ToString(order)
                  IN  Some(ZoneInfo("segment-" \o ToString(order), label,
                                    "segment", order))
             ELSE IF segmentIndexMatch # None
             THEN LET order == parseInt(segmentIndexMatch[1])
                  IN  Some(ZoneInfo("segment-" \o ToString(order),
                                    "C" \o ToString(order), "segment", order))
             ELSE None

----------------------------------------------------------------------------
(* Segment texts, assembled from their pieces:                              *)
(*   lead word sep number dash name suffix trail                            *)

RECURSIVE DigitsOf(_)
DigitsOf(n) ==
    IF n < 10 THEN <<DigitChars[n + 1]>>
    ELSE DigitsOf(n \div 10) \o <<DigitChars[(n % 10) + 1]>>

SegmentWords ==
    { << >>, <<"M", "a", "p">>, <<"C">>, <<"c">>,
      BonusWord, <<"b", "o", "n", "u", "s">>,
      CourseWord, <<"C", "O", "U", "R", "S", "E">> }

SegmentSeps == { << >>, <<" ">>, <<"\t", " ">> }

SegmentNumbers == {None} \cup {Some(n) : n \in 0..MaxZoneOrder}

SegmentDashes == { << >>, <<"-">>, <<" ", "-", " ">>, <<" ", " ", "-">> }

SegmentNames == { << >>, <<"R", "o", "o", "f", "t", "o", "p">>,
                  <<"T", "o", "p", " ", "2">> }

(* Suffixes the name sanitizer removes, and suffixes it keeps *)
StrippedSuffixes == { <<" ", "F", "i", "r", "s", "t">>,
                      <<" ", "\t", "f", "i", "r", "s", "t">> }
SegmentSuffixes == { << >>, FirstWord } \cup StrippedSuffixes

SegmentShapes ==
    [lead : {<< >>, <<" ">>}, word : SegmentWords, sep : SegmentSeps,
     number : SegmentNumbers, pad : BOOLEAN, dash : SegmentDashes,
     name : SegmentNames, suffix : SegmentSuffixes, trail : {<< >>, <<" ">>}]

NumberText(shape) ==
    IF shape.number = None THEN << >>
    ELSE (IF shape.pad THEN <<"0">> ELSE << >>) \o DigitsOf(shape.number[1])

SegmentText(shape) ==
    shape.lead \o shape.word \o shape.sep \o NumberText(shape) \o shape.dash
        \o shape.name \o shape.suffix \o shape.trail

InitClassify ==
    /\ TimelineIdle
    /\ AppInitial(NoHash)
    /\ called = ""
    /\ args \in SegmentShapes
    /\ args.number = None => ~args.pad
    /\ result = None

(* getZoneInfo(source) called on the text of the shape *)
Classify ==
    /\ called = ""
    /\ called' = "getZoneInfo"
    /\ result' = getZoneInfo(SegmentText(args))
    /\ UNCHANGED <<args, timelineVars, appVars>>

NextClassify == Classify

SpecClassify == InitClassify /\ [][NextClassify]_vars

(* The outcome the rules give for a shape, read off its pieces *)
IsWord(shape, word) == StartsWithIgnoreCase(shape.word, word) /\ Len(shape.word) = Len(word)

NamedZone(kind, title, n) ==
    Some(ZoneInfo(kind \o "-" \o ToString(n), title \o " " \o ToString(n), kind, n))

SegmentZone(n, name) ==
    Some(ZoneInfo("segment-" \o ToString(n),
                  IF name = "" THEN "C" \o ToString(n)
                  ELSE "C" \o ToString(n) \o " - " \o name,
                  "segment", n))

ShapeName(shape) ==
    IF shape.dash = << >> THEN ""
    ELSE IF shape.name # << >> /\ shape.suffix \in StrippedSuffixes
         THEN Join(shape.name)
         ELSE Join(trim(shape.name \o shape.suffix))

RuleOutcome(shape) ==
    IF shape.number = None THEN None
    ELSE IF IsWord(shape, BonusWord) /\ shape.sep # << >>
         THEN NamedZone("bonus", "Bonus", shape.number[1])
    ELSE IF IsWord(shape, CourseWord) /\ shape.sep # << >>
         THEN NamedZone("course", "Course", shape.number[1])
    ELSE IF IsWord(shape, <<"C">>) /\ shape.sep = << >>
         THEN SegmentZone(shape.number[1], ShapeName(shape))
    ELSE None

ScenarioText ==
    <<"C", "3", " ", "-", " ", "R", "o", "o", "f", "t", "o", "p", " ",
      "F", "i", "r", "s", "t">>

ScenarioZone ==
    [id |-> "segment-3", label |-> "C3 - Rooftop", kind |-> "segment", order |-> 3]

(* C17: classification is total and gives one outcome per segment text,    *)
(* decided by the first rule the trimmed text matches at its start,        *)
(* ignoring case: Bonus N -> bonus-N; Course N -> course-N;                *)
(* C<N> - <name> -> segment-N labelled 'C<N> - <name>' with a trailing     *)
(* ' First' stripped from the name; C<N> -> segment-N labelled 'C<N>';     *)
(* anything else (empty text and 'Map' included) -> no zone.               *)
(* 'C3 - Rooftop First' gives {segment-3, 'C3 - Rooftop', segment, 3}.     *)
C17_FirstMatchingRule ==
    called = "getZoneInfo" =>
        /\ result = RuleOutcome(args)
        /\ result = None \/ result[1].kind \in {"bonus", "course", "segment"}
        /\ SegmentText(args) = ScenarioText => result = Some(ScenarioZone)
        /\ SegmentText(args) \in {<< >>, <<"M", "a", "p">>} => result = None

C17_Witness ==
    /\ called = "getZoneInfo"
    /\ SegmentText(args) = ScenarioText
    /\ result = Some(ScenarioZone)

----------------------------------------------------------------------------
(* The memos of App derived from rows: rowsWithZone, zoneOptions, filtered *)

rowsWithZone(rowList) ==
    [k \in 1..Len(rowList) |->
        [row |-> rowList[k], zone |-> getZoneInfo(rowList[k].segment)]]

(* Map.prototype.set: a known key keeps its place and takes the new value *)
MapSet(entries, zone) ==
    IF \E k \in 1..Len(entries) : entries[k].id = zone.id
    THEN [k \in 1..Len(entries) |->
             IF entries[k].id = zone.id THEN zone ELSE entries[k]]
    ELSE Append(entries, zone)

(* The values of the Map after the loop over the first n items *)
RECURSIVE MapValues(_, _)
MapValues(items, n) ==
    IF n = 0 THEN << >>
    ELSE IF items[n].zone = None THEN MapValues(items, n - 1)
         ELSE MapSet(MapValues(items, n - 1), items[n].zone[1])

ZoneRank(zone) ==
    CASE zone.kind = "bonus" -> 0
      [] zone.kind = "course" -> 1
      [] zone.kind = "segment" -> 2
      [] OTHER -> 99

(* Variant: the kind rank ignored *)
compareZones_ByOrderOnly(left, right) == left.order - right.order

compareZones(left, right) ==
    LET rankDiff == ZoneRank(left) - ZoneRank(right)
    IN  IF rankDiff # 0 THEN rankDiff ELSE left.order - right.order

(* Array.prototype.sort(compareZones): stable *)
RECURSIVE InsertZone(_, _)
InsertZone(sorted, zone) ==
    IF sorted = << >> THEN <<zone>>
    ELSE IF compareZones(sorted[Len(sorted)], zone) <= 0
         THEN Append(sorted, zone)
         ELSE Append(InsertZone(SubSeq(sorted, 1, Len(sorted) - 1), zone),
                     sorted[Len(sorted)])

RECURSIVE SortZones(_, _)
SortZones(zones, n) ==
    IF n = 0 THEN << >> ELSE InsertZone(SortZones(zones, n - 1), zones[n])

zoneOptions(items) ==
    LET values == MapValues(items, Len(items))
    IN  SortZones(values, Len(values))

(* Variant: the selected zone ignored *)
FilterKeeps_AnyZone(item, viewMode, zoneId) ==
    IF viewMode = "map" THEN item.zone = None ELSE item.zone # None

(* The predicate of the filter: view is the view mode, zoneId the selection *)
FilterKeeps(item, viewMode, zoneId) ==
    IF viewMode = "map" THEN item.zone = None
    ELSE IF item.zone = None THEN FALSE
    ELSE IF zoneId # None /\ item.zone[1].id # zoneId[1] THEN FALSE
    ELSE TRUE

(* rowsWithZone.filter(...).map(({ row }) => row), over the first n items *)
RECURSIVE FilterRows(_, _, _, _)
FilterRows(items, n, viewMode, zoneId) ==
    IF n = 0 THEN << >>
    ELSE IF FilterKeeps(items[n], viewMode, zoneId)
         THEN Append(FilterRows(items, n - 1, viewMode, zoneId), items[n].row)
         ELSE FilterRows(items, n - 1, viewMode, zoneId)

Filtered(rowList, viewMode, zoneId) ==
    FilterRows(rowsWithZone(rowList), Len(rowList), viewMode, zoneId)

----------------------------------------------------------------------------
(* Row sets over a few segment texts.  A decoded row is its segment text   *)
(* and the CSV line it was decoded from, which stands for the other fields *)

CsvRow(segment, line) == [segment |-> segment, line |-> line]

ZoneSegments ==
    { << >>, <<"M", "a", "p">>,
      <<"B", "o", "n", "u", "s", " ", "1">>,
      <<"B", "o", "n", "u", "s", " ", "2">>,
      <<"C", "o", "u", "r", "s", "e", " ", "1">>,
      <<"C", "1">>,
      <<"C", "1", " ", "-", " ", "T", "o", "p", " ", "F", "i", "r", "s", "t">>,
      <<"C", "2", " ", "-", " ", "T", "o", "p">> }

ZoneIds == {"bonus-1", "bonus-2", "course-1", "segment-1", "segment-2", "segment-9"}

InitZones ==
    /\ TimelineIdle
    /\ NoCall
    /\ \E m \in 0..MaxZoneRows : \E f \in [1..m -> ZoneSegments] :
          rows = [k \in 1..m |-> CsvRow(f[k], k)]
    /\ view \in {"map", "zones"}
    /\ selectedZone \in {None} \cup {Some(z) : z \in ZoneIds}
    /\ index = None
    /\ selectedMap = None
    /\ selectedClass = "Solly"
    /\ loading = FALSE
    /\ hash = NoHash
    /\ fragment = NoHash
    /\ indexFetch = "none"
    /\ csvFetches = << >>
    /\ lastCsv = None
    /\ prevCsv = None
    /\ committed = None
    /\ rowsChanged = FALSE

(* The filtered memo computed in the current render *)
ComputeFiltered ==
    /\ called = ""
    /\ called' = "filtered"
    /\ args' = <<rows, view, selectedZone>>
    /\ result' = Filtered(rows, view, selectedZone)
    /\ UNCHANGED <<timelineVars, appVars>>

(* The zoneOptions memo computed in the current render *)
ComputeZoneOptions ==
    /\ called = ""
    /\ called' = "zoneOptions"
    /\ args' = <<rows>>
    /\ result' = zoneOptions(rowsWithZone(rows))
    /\ UNCHANGED <<timelineVars, appVars>>

NextZones == ComputeFiltered \/ ComputeZoneOptions

SpecZones == InitZones /\ [][NextZones]_vars

(* The zone id of a row, or none *)
ZoneIdOf(row) ==
    IF getZoneInfo(row.segment) = None THEN None
    ELSE Some(getZoneInfo(row.segment)[1].id)

(* C12: the filter returns a subsequence of the decoded rows in their      *)
(* original relative order: in whole-course mode exactly the rows whose    *)
(* segment classifies to no zone; in zone mode with zone id Z selected     *)
(* exactly the rows whose segment classifies to a zone with id Z.          *)
C12_FilterSelects ==
    called = "filtered" /\ (view = "map" \/ selectedZone # None) =>
        /\ \A a, b \in 1..Len(result) : a < b => result[a].line < result[b].line
        /\ \A k \in 1..Len(result) : \E n \in 1..Len(rows) : result[k] = rows[n]
        /\ \A n \in 1..Len(rows) :
              (\E k \in 1..Len(result) : result[k] = rows[n]) <=>
                  IF view = "map" THEN ZoneIdOf(rows[n]) = None
                  ELSE ZoneIdOf(rows[n]) = selectedZone

C12_Witness ==
    /\ called = "filtered"
    /\ view = "zones"
    /\ selectedZone = Some("segment-1")
    /\ Len(rows) = 3
    /\ Len(result) = 2
    /\ result[1] = rows[1] /\ result[2] = rows[3]
    /\ rows[1].segment # rows[3].segment
    /\ ZoneIdOf(rows[2]) = Some("bonus-1")

(* C18: the zone option list has exactly one entry per distinct zone id    *)
(* among the rows, none missing and none twice, ordered by kind rank       *)
(* bonus < course < segment and then by order ascending; it is the same    *)
(* for every view mode and selected zone.                                  *)
C18_ZoneOptionsSet ==
    called = "zoneOptions" =>
        /\ \A a, b \in 1..Len(result) : a # b => result[a].id # result[b].id
        /\ {Some(result[k].id) : k \in 1..Len(result)}
              = {ZoneIdOf(rows[n]) : n \in 1..Len(rows)} \ {None}
        /\ \A k \in 1..Len(result) :
              \E n \in 1..Len(rows) : getZoneInfo(rows[n].segment) = Some(result[k])
        /\ \A a, b \in 1..Len(result) : a < b =>
              \/ ZoneRank(result[a]) < ZoneRank(result[b])
              \/ /\ ZoneRank(result[a]) = ZoneRank(result[b])
                 /\ result[a].order < result[b].order
        /\ \A k \in 1..Len(result) :
              ZoneRank(result[k]) = CASE result[k].kind = "bonus" -> 0
                                      [] result[k].kind = "course" -> 1
                                      [] result[k].kind = "segment" -> 2

C18_Witness ==
    /\ called = "zoneOptions"
    /\ view = "zones"
    /\ selectedZone = Some("segment-2")
    /\ Len(rows) = 3
    /\ ZoneIdOf(rows[1]) = Some("segment-1")
    /\ ZoneIdOf(rows[2]) = Some("bonus-2")
    /\ ZoneIdOf(rows[3]) = Some("segment-1")
    /\ rows[1].segment # rows[3].segment
    /\ Len(result) = 2
    /\ result[1].id = "bonus-2"
    /\ result[2].id = "segment-1"

----------------------------------------------------------------------------
(* Steam identifiers: normalizeSteamId64, parseSteamId64,                  *)
(* buildSteamProfileUrl.  A BigInt is the sequence of its decimal digits.  *)

STEAM_ID64_BASE ==
    <<"7", "6", "5", "6", "1", "1", "9", "7", "9", "6", "0", "2", "6", "5",
      "7", "2", "8">>

StartsWith(s, word) ==
    /\ Len(s) >= Len(word)
    /\ SubSeq(s, 1, Len(word)) = word

EndsWith(s, word) ==
    /\ Len(s) >= Len(word)
    /\ SubSeq(s, Len(s) - Len(word) + 1, Len(s)) = word

(* String.prototype.lastIndexOf: 0-based, -1 when absent *)
LastIndexOf(s, c) ==
    IF \E k \in 1..Len(s) : s[k] = c
    THEN (CHOOSE k \in 1..Len(s) : s[k] = c /\ \A n \in (k + 1)..Len(s) : s[n] # c) - 1
    ELSE -1

(* String.prototype.split(c) *)
RECURSIVE Split(_, _)
Split(s, c) ==
    IF \E k \in 1..Len(s) : s[k] = c
    THEN LET at == CHOOSE k \in 1..Len(s) : s[k] = c /\ \A n \in 1..(k - 1) : s[n] # c
         IN  <<SubSeq(s, 1, at - 1)>> \o Split(SubSeq(s, at + 1, Len(s)), c)
    ELSE <<s>>

(* /^\d+$/ *)
AllDigits(s) == s # << >> /\ \A k \in 1..Len(s) : IsDigit(s[k])

(* BigInt addition, digit by digit from the right, with a carry *)
RECURSIVE AddDigits(_, _, _)
AddDigits(a, b, carry) ==
    IF a = << >> /\ b = << >>
    THEN (IF carry = 0 THEN << >> ELSE <<DigitChars[carry + 1]>>)
    ELSE LET da == IF a = << >> THEN 0 ELSE DigitValue(a[Len(a)])
             db == IF b = << >> THEN 0 ELSE DigitValue(b[Len(b)])
             sum == da + db + carry
         IN  AddDigits(SubSeq(a, 1, Len(a) - 1), SubSeq(b, 1, Len(b) - 1),
                       sum \div 10)
                 \o <<DigitChars[(sum % 10) + 1]>>

(* BigInt.prototype.toString: no leading zeros *)
RECURSIVE BigIntToString(_)
BigIntToString(digits) ==
    IF Len(digits) > 1 /\ digits[1] = "0" THEN BigIntToString(Tail(digits))
    ELSE Join(digits)

(* Variant: y and z exchanged *)
LegacyAccount_Swapped(y, z) ==
    AddDigits(AddDigits(STEAM_ID64_BASE, AddDigits(y, y, 0), 0), z, 0)

(* STEAM_ID64_BASE + z * 2n + y *)
LegacyAccount(y, z) ==
    AddDigits(AddDigits(STEAM_ID64_BASE, AddDigits(z, z, 0), 0), y, 0)

normalizeSteamId64(value) ==
    IF value = << >> THEN None
    ELSE LET trimmed == trim(value)
         IN  IF trimmed = << >> THEN None
             ELSE IF AllDigits(trimmed) /\ Len(trimmed) \in 16..17
                  THEN Some(Join(trimmed))
                  ELSE None

parseSteamId64(steamId) ==
    IF steamId = << >> THEN None
    ELSE LET trimmed == trim(steamId)
             direct == normalizeSteamId64(trimmed)
             lastColon == LastIndexOf(trimmed, ":")
             value == SubSeq(trimmed, lastColon + 2, Len(trimmed) - 1)
             parts == Split(SubSeq(trimmed, 7, Len(trimmed)), ":")
         IN  IF trimmed = << >> THEN None
             ELSE IF direct # None THEN direct
             ELSE IF /\ StartsWith(trimmed, <<"[", "U", ":">>)
                     /\ EndsWith(trimmed, <<"]">>)
                     /\ lastColon > 0
                     /\ AllDigits(value)
                  THEN Some(BigIntToString(AddDigits(STEAM_ID64_BASE, value, 0)))
             ELSE IF /\ StartsWith(trimmed, <<"S", "T", "E", "A", "M", "_">>)
                     /\ Len(parts) = 3
                     /\ AllDigits(parts[2])
                     /\ AllDigits(parts[3])
                  THEN Some(BigIntToString(LegacyAccount(parts[2], parts[3])))
             ELSE None

ProfilePrefix == "https://steamcommunity.com/profiles/"

(* Variant: the legacy id tried first *)
buildSteamProfileUrl_LegacyFirst(steamId64, steamId) ==
    LET parsed == IF parseSteamId64(steamId) # None
                  THEN parseSteamId64(steamId)
                  ELSE normalizeSteamId64(steamId64)
    IN  IF parsed = None THEN None ELSE Some(ProfilePrefix \o parsed[1])

buildSteamProfileUrl(steamId64, steamId) ==
    LET parsed == IF normalizeSteamId64(steamId64) # None
                  THEN normalizeSteamId64(steamId64)
                  ELSE parseSteamId64(steamId)
    IN  IF parsed = None THEN None ELSE Some(ProfilePrefix \o parsed[1])

----------------------------------------------------------------------------
(* Identifier texts, by form                                               *)

AccountNumbers == 0..MaxAccount \cup {4272, 12345, 734271}

Digits16 == <<"7", "6", "5", "6", "1", "1", "9", "7", "9", "6", "0", "2", "6",
              "5", "7", "2">>

BareTexts ==
    { SubSeq(Digits16, 1, 15), Digits16, STEAM_ID64_BASE,
      STEAM_ID64_BASE \o <<"9">>, SubSeq(Digits16, 1, 15) \o <<"x">> }

MalformedTexts ==
    { << >>, <<"a", "b", "c">>, <<"1", "2", "3", "4", "5">>,
      <<"[", "U", ":", "1", ":", "1", "2", "a", "]">>,
      <<"[", "U", ":", "1", ":", "]">>,
      <<"[", "U", ":", "1", ":", "5">>,
      <<"[", "u", ":", "1", ":", "5", "]">>,
      <<"U", ":", "1", ":", "5", "]">>,
      <<"S", "T", "E", "A", "M", "_", "0", ":", "1">>,
      <<"S", "T", "E", "A", "M", "_", "0", ":", "1", ":", "2", ":", "3">>,
      <<"S", "T", "E", "A", "M", "_", "0", ":", "a", ":", "5">>,
      <<"S", "T", "E", "A", "M", "_", "0", ":", "1", ":">>,
      <<"s", "t", "e", "a", "m", "_", "0", ":", "1", ":", "5">> }

SteamShapes ==
    [form : {"bare"}, text : BareTexts, y : {0}, n : {0}]
    \cup [form : {"other"}, text : MalformedTexts, y : {0}, n : {0}]
    \cup [form : {"bracket"}, text : {<<"1">>, <<"0">>}, y : {0}, n : AccountNumbers]
    \cup [form : {"short"}, text : {<< >>}, y : {0}, n : AccountNumbers]
    \cup [form : {"steam"}, text : {<<"0">>, <<"1">>}, y : {0, 1}, n : AccountNumbers]

(* The identifier text of a shape, between white space *)
SteamText(shape, lead, trail) ==
    lead \o
    (CASE shape.form = "bracket" ->
              <<"[", "U", ":">> \o shape.text \o <<":">> \o DigitsOf(shape.n) \o <<"]">>
       [] shape.form = "short" ->
              <<"[", "U", ":">> \o DigitsOf(shape.n) \o <<"]">>
       [] shape.form = "steam" ->
              <<"S", "T", "E", "A", "M", "_">> \o shape.text \o <<":">>
                  \o DigitsOf(shape.y) \o <<":">> \o DigitsOf(shape.n)
       [] OTHER -> shape.text)
    \o trail

Steam64Texts ==
    { << >>, <<" ">>, <<"a", "b", "c">>, SubSeq(Digits16, 1, 15),
      Digits16, <<" ">> \o STEAM_ID64_BASE \o <<" ">> }

Padding == {<< >>, <<" ">>}

InitSteam ==
    /\ TimelineIdle
    /\ AppInitial(NoHash)
    /\ called = ""
    /\ args \in [steamId64 : Steam64Texts, shape : SteamShapes,
                 lead : Padding, trail : Padding]
    /\ result = None

(* parseSteamId64(steamId) *)
ParseSteamId ==
    /\ called = ""
    /\ called' = "parseSteamId64"
    /\ result' = parseSteamId64(SteamText(args.shape, args.lead, args.trail))
    /\ UNCHANGED <<args, timelineVars, appVars>>

(* buildSteamProfileUrl(steamId64, steamId) *)
BuildProfileUrl ==
    /\ called = ""
    /\ called' = "buildSteamProfileUrl"
    /\ result' = buildSteamProfileUrl(args.steamId64,
                     SteamText(args.shape, args.lead, args.trail))
    /\ UNCHANGED <<args, timelineVars, appVars>>

NextSteam == ParseSteamId \/ BuildProfileUrl

SpecSteam == InitSteam /\ [][NextSteam]_vars

(* offset + n written out, for n below 39734272: only the last nine        *)
(* digits of the offset change                                             *)
OffsetPlus(n) == "76561197" \o ToString(960265728 + n)

(* The id the encodings give for a shape *)
DecodedId(shape) ==
    CASE shape.form = "bare" ->
             IF AllDigits(shape.text) /\ Len(shape.text) \in {16, 17}
             THEN Some(Join(shape.text)) ELSE None
      [] shape.form \in {"bracket", "short"} -> Some(OffsetPlus(shape.n))
      [] shape.form = "steam" -> Some(OffsetPlus(2 * shape.n + shape.y))
      [] OTHER -> None

(* C19: the legacy decoder returns the first encoding that matches: a bare *)
(* 16-17 digit string unchanged; [U:X:Y] gives offset + Y, Y being the     *)
(* digits after the last colon ([U:Y] included); STEAM_X:Y:Z with numeric  *)
(* Y and Z gives offset + 2*Z + Y (STEAM_0:1:12345 gives                   *)
(* 76561197960290419); any other string, the empty one included, is        *)
(* unresolved.                                                             *)
C19_FirstMatchingEncoding ==
    called = "parseSteamId64" =>
        /\ result = DecodedId(args.shape)
        /\ (args.shape.form = "steam" /\ args.shape.text = <<"0">>
              /\ args.shape.y = 1 /\ args.shape.n = 12345)
           => result = Some("76561197960290419")

C19_Witness ==
    /\ called = "parseSteamId64"
    /\ SteamText(args.shape, args.lead, args.trail)
          = <<"S", "T", "E", "A", "M", "_", "0", ":", "1", ":",
              "1", "2", "3", "4", "5">>
    /\ result = Some("76561197960290419")

(* C20: the profile reference uses steam_id64 whenever it is a valid 16-17 *)
(* digit id, whatever steam_id is; otherwise the id decoded from steam_id; *)
(* when neither resolves there is no reference.                            *)
C20_DirectThenLegacy ==
    called = "buildSteamProfileUrl" =>
        LET direct == trim(args.steamId64)
        IN  IF AllDigits(direct) /\ Len(direct) \in {16, 17}
            THEN result = Some(ProfilePrefix \o Join(direct))
            ELSE IF DecodedId(args.shape) # None
                 THEN result = Some(ProfilePrefix \o DecodedId(args.shape)[1])
                 ELSE result = None

C20_Witness ==
    /\ called = "buildSteamProfileUrl"
    /\ args.steamId64 = Digits16
    /\ args.shape.form = "steam" /\ args.shape.n = 12345
    /\ result = Some("https://steamcommunity.com/profiles/7656119796026572")

----------------------------------------------------------------------------
(* The table of the timeline: the watch cell and the demo cell of each row *)

(* Variant: the link gated on demo_id alone *)
HasDemoLink_AnyEvidence(row) == row.demo_id # ""

(* row.demo_id && row.evidence === EVIDENCE_KIND.Record *)
HasDemoLink(row) == row.demo_id # "" /\ row.evidence = "record"

WatchCell(row) ==
    IF HasDemoLink(row)
    THEN Some("https://demos.tf2jump.xyz/?demo=" \o row.demo_id)
    ELSE None

DemoCell(row) ==
    IF HasDemoLink(row)
    THEN Some("https://tempus2.xyz/demos/" \o row.demo_id)
    ELSE None

TableRow(row) == [watch |-> WatchCell(row), demo |-> DemoCell(row)]

DemoIds == {"", "0", "1234567"}

EvidenceValues ==
    {"record", "announcement", "command", "observed", "Record", " record", ""}

TablePoints == [demo_id : DemoIds, evidence : EvidenceValues]

InitTable ==
    /\ TimelineIdle
    /\ AppInitial(NoHash)
    /\ called = ""
    /\ \E m \in 0..MaxTableRows : args \in [1..m -> TablePoints]
    /\ result = None

(* timeline.map((row) => <div className="table-row"> ... </div>) *)
RenderTable ==
    /\ called = ""
    /\ called' = "table"
    /\ result' = [k \in 1..Len(args) |-> TableRow(args[k])]
    /\ UNCHANGED <<args, timelineVars, appVars>>

NextTable == RenderTable

SpecTable == InitTable /\ [][NextTable]_vars

(* C16: a watch-demo link or a demo link is made for a timeline row only   *)
(* when the row's demo_id is non-empty and its evidence is record; a row   *)
(* with any other evidence value gets neither link, demo_id or not.        *)
C16_LinksOnlyForRecords ==
    called = "table" =>
        /\ Len(result) = Len(args)
        /\ \A k \in 1..Len(args) :
              /\ (result[k].watch # None \/ result[k].demo # None)
                    => (args[k].demo_id # "" /\ args[k].evidence = "record")
              /\ args[k].evidence # "record"
                    => (result[k].watch = None /\ result[k].demo = None)

C16_Witness ==
    /\ called = "table"
    /\ Len(args) = 2
    /\ args[1] = [demo_id |-> "1234567", evidence |-> "announcement"]
    /\ args[2] = [demo_id |-> "1234567", evidence |-> "record"]
    /\ result[1] = [watch |-> None, demo |-> None]
    /\ result[2] = [watch |-> Some("https://demos.tf2jump.xyz/?demo=1234567"),
                    demo |-> Some("https://tempus2.xyz/demos/1234567")]

----------------------------------------------------------------------------
(* App: the catalog, the CSV files, the effects and the controls           *)

(* index.json: two maps, the second for one class only *)
CatalogMaps ==
    << [map |-> "jump_a", classes |-> <<"Solly", "Demo">>,
        files |-> [c \in {"Solly", "Demo"} |-> "jump_a_" \o c \o ".csv"]],
       [map |-> "jump_b", classes |-> <<"Demo">>,
        files |-> [c \in {"Demo"} |-> "jump_b_" \o c \o ".csv"]] >>

IndexData == [maps |-> CatalogMaps]

(* The decoded rows of each CSV file *)
FileRows(file) ==
    CASE file = "jump_a_Solly.csv" ->
             << CsvRow(<<"M", "a", "p">>, 1),
                CsvRow(<<"B", "o", "n", "u", "s", " ", "2">>, 2),
                CsvRow(<<"B", "o", "n", "u", "s", " ", "1">>, 3) >>
      [] file = "jump_a_Demo.csv" ->
             << CsvRow(<<"M", "a", "p">>, 1) >>
      [] file = "jump_b_Demo.csv" ->
             << CsvRow(<<"C", "1", " ", "-", " ", "T", "o", "p", " ", "F", "i", "r", "s", "t">>, 1),
                CsvRow(<<"M", "a", "p">>, 2) >>

(* Array.prototype.includes *)
Includes(list, value) == \E k \in 1..Len(list) : list[k] = value

(* index.maps.find((entry) => entry.map === name) *)
FindEntry(data, name) ==
    IF \E k \in 1..Len(data.maps) : data.maps[k].map = name
    THEN Some(data.maps[CHOOSE k \in 1..Len(data.maps) :
                  /\ data.maps[k].map = name
                  /\ \A n \in 1..(k - 1) : data.maps[n].map # name])
    ELSE None

(* The dependency values of the current render *)
Snapshot ==
    [index |-> index, selectedMap |-> selectedMap, selectedClass |-> selectedClass,
     view |-> view, selectedZone |-> selectedZone]

(* The effects of the current render have run and changed nothing since *)
Settled == committed = Some(Snapshot) /\ ~rowsChanged

(* A dependency differs from its value at the previous run of the effects *)
Changed(deps) ==
    \/ committed = None
    \/ \E d \in deps : committed[1][d] # Snapshot[d]

(* A state update requested by an effect: none, or the new value *)
Apply(old, update) == IF update = None THEN old ELSE update[1]
Later(first, second) == IF second # None THEN second ELSE first

(* The hash-restore effect, deps [index]: its set-state calls *)
RestoreRuns == Changed({"index"}) /\ index # None

RestoreFound ==
    IF hash.map # None /\ hash.map # Some("")
    THEN FindEntry(index[1], hash.map[1]) ELSE None

RestoreMap ==
    IF ~RestoreRuns THEN None
    ELSE IF RestoreFound # None THEN Some(Some(RestoreFound[1].map))
    ELSE IF Len(index[1].maps) > 0 THEN Some(Some(index[1].maps[1].map))
    ELSE None

RestoreClass ==
    IF ~RestoreRuns \/ RestoreFound = None THEN None
    ELSE IF hash.class \in {Some("Demo"), Some("Solly")} THEN hash.class
    ELSE IF ~Includes(RestoreFound[1].classes, selectedClass)
         THEN Some(RestoreFound[1].classes[1])
    ELSE None

RestoreView ==
    IF RestoreRuns /\ hash.view \in {Some("zones"), Some("map")}
    THEN hash.view ELSE None

RestoreZone ==
    IF RestoreRuns /\ hash.zone # None /\ hash.zone # Some("")
    THEN Some(hash.zone) ELSE None

(* The hash-write effect, deps [selectedMap, selectedClass, view, selectedZone] *)
WriteRuns ==
    /\ Changed({"selectedMap", "selectedClass", "view", "selectedZone"})
    /\ selectedMap # None

WrittenHash ==
    [map |-> selectedMap, class |-> Some(selectedClass),
     view |-> IF view = "zones" THEN Some("zones") ELSE None,
     zone |-> IF view = "zones" /\ selectedZone # None /\ selectedZone # Some("")
              THEN selectedZone ELSE None]

(* The CSV fetch effect, deps [index, selectedMap, selectedClass] *)
FetchEntry ==
    IF index # None /\ selectedMap # None
    THEN FindEntry(index[1], selectedMap[1]) ELSE None

FetchRuns ==
    /\ Changed({"index", "selectedMap", "selectedClass"})
    /\ FetchEntry # None

FetchClass ==
    IF FetchRuns /\ ~Includes(FetchEntry[1].classes, selectedClass)
    THEN Some(FetchEntry[1].classes[1]) ELSE None

FetchStarts == FetchRuns /\ Includes(FetchEntry[1].classes, selectedClass)

FetchRequest ==
    [map |-> selectedMap[1], class |-> selectedClass,
     file |-> FetchEntry[1].files[selectedClass]]

(* The zone selection effect, deps [view, zoneOptions, selectedZone] *)
Options == zoneOptions(rowsWithZone(rows))

SelectRuns == Changed({"view", "selectedZone"}) \/ rowsChanged

(* Variant: a selection that is no longer among the options is kept *)
SelectZone_KeepStale ==
    IF ~SelectRuns THEN None
    ELSE IF view # "zones" \/ Len(Options) = 0
         THEN (IF selectedZone # None THEN Some(None) ELSE None)
    ELSE IF selectedZone = None \/ selectedZone = Some("")
         THEN Some(Some(Options[1].id))
    ELSE None

SelectZone ==
    IF ~SelectRuns THEN None
    ELSE IF view # "zones" \/ Len(Options) = 0
         THEN (IF selectedZone # None THEN Some(None) ELSE None)
    ELSE IF \/ selectedZone = None \/ selectedZone = Some("")
            \/ ~\E k \in 1..Len(Options) : Options[k].id = selectedZone[1]
         THEN Some(Some(Options[1].id))
    ELSE None

(* The effects of the committed render, run in declaration order against   *)
(* the values of that render; their state updates are applied together.    *)
(* On mount the first effect starts the catalog fetch.                     *)
RunEffects ==
    /\ ~Settled
    /\ indexFetch' = IF committed = None THEN "pending" ELSE indexFetch
    /\ selectedMap' = Apply(selectedMap, RestoreMap)
    /\ selectedClass' = Apply(selectedClass, Later(RestoreClass, FetchClass))
    /\ view' = Apply(view, RestoreView)
    /\ selectedZone' = Apply(selectedZone, Later(RestoreZone, SelectZone))
    /\ hash' = IF WriteRuns THEN WrittenHash ELSE hash
    /\ loading' = IF FetchStarts THEN TRUE ELSE loading
    /\ csvFetches' = IF FetchStarts THEN Append(csvFetches, FetchRequest)
                     ELSE csvFetches
    /\ committed' = Some(Snapshot)
    /\ rowsChanged' = FALSE
    /\ UNCHANGED <<index, rows, fragment, lastCsv, prevCsv,
                   timelineVars, callVars>>

(* The catalog fetch resolves: setIndex(data) *)
CatalogOk ==
    /\ Settled /\ indexFetch = "pending"
    /\ index' = Some(IndexData)
    /\ indexFetch' = "ok"
    /\ UNCHANGED <<selectedMap, selectedClass, view, selectedZone, rows, loading,
                   hash, fragment, csvFetches, lastCsv, prevCsv,
                   committed, rowsChanged,
                   timelineVars, callVars>>

(* The catalog fetch or res.json() rejects: setIndex(null) *)
CatalogFail ==
    /\ Settled /\ indexFetch = "pending"
    /\ index' = None
    /\ indexFetch' = "failed"
    /\ UNCHANGED <<selectedMap, selectedClass, view, selectedZone, rows, loading,
                   hash, fragment, csvFetches, lastCsv, prevCsv,
                   committed, rowsChanged,
                   timelineVars, callVars>>

Without(list, k) == SubSeq(list, 1, k - 1) \o SubSeq(list, k + 1, Len(list))

Outcome(request, outcome) ==
    Some([map |-> request.map, class |-> request.class, outcome |-> outcome])

(* A variant with a request-generation guard: the response of a fetch     *)
(* whose request is no longer the selection is dropped                     *)
CsvOk_Guarded ==
    /\ Settled
    /\ \E k \in 1..Len(csvFetches) :
          /\ rows' = IF /\ selectedMap = Some(csvFetches[k].map)
                        /\ selectedClass = csvFetches[k].class
                     THEN FileRows(csvFetches[k].file) ELSE rows
          /\ csvFetches' = Without(csvFetches, k)
          /\ lastCsv' = Outcome(csvFetches[k], "ok")
    /\ prevCsv' = lastCsv
    /\ rowsChanged' = TRUE
    /\ loading' = FALSE
    /\ UNCHANGED <<index, selectedMap, selectedClass, view, selectedZone, hash,
                   fragment, indexFetch, committed, timelineVars, callVars>>

(* An outstanding CSV fetch resolves: setRows(parseCsv(text)), then        *)
(* setLoading(false)                                                       *)
CsvOk ==
    /\ Settled
    /\ \E k \in 1..Len(csvFetches) :
          /\ rows' = FileRows(csvFetches[k].file)
          /\ csvFetches' = Without(csvFetches, k)
          /\ lastCsv' = Outcome(csvFetches[k], "ok")
    /\ prevCsv' = lastCsv
    /\ rowsChanged' = TRUE
    /\ loading' = FALSE
    /\ UNCHANGED <<index, selectedMap, selectedClass, view, selectedZone, hash,
                   fragment, indexFetch, committed, timelineVars, callVars>>

(* An outstanding CSV fetch rejects: only setLoading(false) runs *)
CsvFail ==
    /\ Settled
    /\ \E k \in 1..Len(csvFetches) :
          /\ csvFetches' = Without(csvFetches, k)
          /\ lastCsv' = Outcome(csvFetches[k], "failed")
    /\ prevCsv' = lastCsv
    /\ loading' = FALSE
    /\ UNCHANGED <<index, selectedMap, selectedClass, view, selectedZone, rows,
                   hash, fragment, indexFetch, committed, rowsChanged,
                   timelineVars, callVars>>

(* A map button: setSelectedMap(entry.map) *)
ClickMap ==
    /\ Settled /\ index # None
    /\ Len(csvFetches) < MaxOutstanding
    /\ \E k \in 1..Len(index[1].maps) : selectedMap' = Some(index[1].maps[k].map)
    /\ UNCHANGED <<index, selectedClass, view, selectedZone, rows, loading, hash,
                   fragment, indexFetch, csvFetches, lastCsv, prevCsv,
                   committed,
                   rowsChanged, timelineVars, callVars>>

(* The class toggle: setSelectedClass('Solly' | 'Demo') *)
ClickClass ==
    /\ Settled
    /\ Len(csvFetches) < MaxOutstanding
    /\ selectedClass' \in {"Solly", "Demo"}
    /\ UNCHANGED <<index, selectedMap, view, selectedZone, rows, loading, hash,
                   fragment, indexFetch, csvFetches, lastCsv, prevCsv,
                   committed,
                   rowsChanged, timelineVars, callVars>>

(* The view toggle: setView(VIEW_MODE.Map | VIEW_MODE.Zones) *)
ClickView ==
    /\ Settled
    /\ view' \in {"map", "zones"}
    /\ UNCHANGED <<index, selectedMap, selectedClass, selectedZone, rows, loading,
                   hash, fragment, indexFetch, csvFetches, lastCsv, prevCsv,
                   committed,
                   rowsChanged, timelineVars, callVars>>

(* The zone select, shown in zone mode and enabled when there are options: *)
(* setSelectedZone(event.target.value)                                     *)
PickZone ==
    /\ Settled
    /\ view = "zones"
    /\ \E k \in 1..Len(Options) : selectedZone' = Some(Options[k].id)
    /\ UNCHANGED <<index, selectedMap, selectedClass, view, rows, loading, hash,
                   fragment, indexFetch, csvFetches, lastCsv, prevCsv,
                   committed,
                   rowsChanged, timelineVars, callVars>>

(* Loading: the fetches and the effects, no user input *)
NextLoad ==
    \/ RunEffects
    \/ CatalogOk
    \/ CatalogFail
    \/ CsvOk
    \/ CsvFail

NextApp ==
    \/ NextLoad
    \/ ClickMap
    \/ ClickClass
    \/ ClickView
    \/ PickZone

(* Address fragments the page is opened with *)
Fragments ==
    [map : {None, Some("jump_a"), Some("jump_b"), Some("jump_x")},
     class : {None, Some("Solly"), Some("Demo"), Some("Spy")},
     view : {None, Some("zones"), Some("map"), Some("grid")},
     zone : {None, Some("bonus-1"), Some("bonus-2"), Some("segment-1")}]

InitLoad ==
    /\ TimelineIdle
    /\ NoCall
    /\ \E h \in Fragments : AppInitial(h)

InitApp ==
    /\ TimelineIdle
    /\ NoCall
    /\ AppInitial(NoHash)

SpecLoad == InitLoad /\ [][NextLoad]_vars
SpecApp == InitApp /\ [][NextApp]_vars

----------------------------------------------------------------------------
(* Properties of App                                                       *)

(* C13: whenever the filtered rows are computed in zone mode with no zone  *)
(* selected and at least one zone in the dataset, they are exactly the     *)
(* rows of the lowest-ranked zone: rows of other zones are not mixed in.   *)
C13_LowestZoneImplied ==
    (view = "zones" /\ selectedZone = None /\ Len(Options) > 0) =>
        Filtered(rows, view, selectedZone)
            = Filtered(rows, "zones", Some(Options[1].id))

(* The zone ids present in the CSV of map M and class C *)
ZoneIdsOf(file) ==
    {ZoneIdOf(FileRows(file)[k]) : k \in 1..Len(FileRows(file))} \ {None}

(* The page was opened with map=M, class=C, view=zones, zone=Z, M/C in the *)
(* catalog and Z a zone of that CSV                                        *)
FullFragment ==
    /\ fragment.map # None /\ fragment.class # None
    /\ fragment.view = Some("zones") /\ fragment.zone # None
    /\ FindEntry(IndexData, fragment.map[1]) # None
    /\ Includes(FindEntry(IndexData, fragment.map[1])[1].classes, fragment.class[1])
    /\ fragment.zone \in
          ZoneIdsOf(FindEntry(IndexData, fragment.map[1])[1].files[fragment.class[1]])

(* The catalog fetch and the CSV fetch of the fragment's selection have    *)
(* succeeded, nothing is outstanding and the effects have settled          *)
LoadSettled ==
    /\ indexFetch = "ok"
    /\ csvFetches = << >>
    /\ lastCsv = Some([map |-> fragment.map[1], class |-> fragment.class[1],
                       outcome |-> "ok"])
    /\ Settled

(* C14: a selection encoded in the address fragment is restored on load:   *)
(* once the fetches and the effects have settled, selectedMap = M,         *)
(* selectedClass = C, view = zones and selectedZone = Z.                   *)
C14_FragmentRestored ==
    (FullFragment /\ LoadSettled) =>
        /\ selectedMap = fragment.map
        /\ selectedClass = fragment.class[1]
        /\ view = "zones"
        /\ selectedZone = fragment.zone

(* C15: a failed fetch yields an empty result: after the catalog fetch     *)
(* fails the catalog is absent; after the CSV fetch for the current        *)
(* selection fails, with nothing else outstanding, the held rows are empty *)
(* and loading is false.                                                   *)
C15_FailedFetchIsEmpty ==
    /\ indexFetch = "failed" => index = None
    /\ (/\ selectedMap # None
        /\ lastCsv = Some([map |-> selectedMap[1], class |-> selectedClass,
                           outcome |-> "failed"])
        /\ csvFetches = << >>)
       => (rows = << >> /\ loading = FALSE)

----------------------------------------------------------------------------
(* Properties of the final timeline                                        *)

(* C27: the history is monotonic once wiped points are set aside: for any  *)
(* two points A before C of the final timeline that both have wiped=false, *)
(* C's recordSeconds is at most A's recordSeconds plus epsilon.            *)
C27_UnwipedNeverSlower ==
    pc = "done" =>
        \A a, c \in 1..Len(timeline) :
            (a < c /\ ~timeline[a].wiped /\ ~timeline[c].wiped) =>
                timeline[c].recordSeconds <= timeline[a].recordSeconds + Epsilon

C27_Witness ==
    /\ pc = "done"
    /\ Len(timeline) = 4
    /\ timeline[1].wiped
    /\ ~timeline[2].wiped /\ timeline[2].wipedBoundary
    /\ ~timeline[3].wiped /\ ~timeline[4].wiped
    /\ timeline[4].recordSeconds < timeline[3].recordSeconds
    /\ timeline[3].recordSeconds < timeline[2].recordSeconds

(* stats (useMemo): null for an empty timeline *)
Stats(tl) ==
    IF Len(tl) = 0 THEN None
    ELSE Some([count |-> Len(tl),
               currentTime |-> tl[Len(tl)].record_time,
               currentDate |-> tl[Len(tl)].date,
               firstDate |-> tl[1].date])

(* C28: in every non-empty timeline the last point has wiped=false and its *)
(* recordSeconds is the current best at the end of the forward pass: the   *)
(* 'current time' statistic, taken from the last point, is never a wiped   *)
(* time.                                                                   *)
C28_LastIsCurrent ==
    (pc = "done" /\ Len(timeline) > 0) =>
        /\ ~timeline[Len(timeline)].wiped
        /\ current = Some(timeline[Len(timeline)].recordSeconds)
        /\ Stats(timeline) # None
        /\ parseTimeToSeconds(Stats(timeline)[1].currentTime) = current
        /\ \E k \in 1..Len(timeline) :
              /\ ~timeline[k].wiped
              /\ timeline[k].record_time = Stats(timeline)[1].currentTime
              /\ timeline[k].date = Stats(timeline)[1].currentDate

C28_Witness ==
    /\ pc = "done"
    /\ Len(timeline) = 3
    /\ timeline[3].wipedBoundary /\ ~timeline[3].wiped
    /\ timeline[1].wiped /\ timeline[2].wiped
    /\ current = Some(timeline[3].recordSeconds)
    /\ Len(points) = 4

----------------------------------------------------------------------------
(* Overlapping CSV fetches                                                 *)

(* The file a settled fetch asked for *)
FileOf(settled) == FindEntry(IndexData, settled.map)[1].files[settled.class]

(* C26: CSV responses are applied in arrival order with no request-        *)
(* generation guard, and an outstanding fetch is never cancelled: a fetch  *)
(* leaves the outstanding ones only by settling, a response that arrives   *)
(* replaces the rows by its own file's rows whatever the selection is, and *)
(* so, once nothing is outstanding, the rows are those of the response     *)
(* that arrived last (S1's, when S1's arrived after S2's and S2 is the     *)
(* selection).                                                             *)
C26_StaleResponseApplied ==
    /\ [](  (csvFetches = << >> /\ lastCsv # None /\ lastCsv[1].outcome = "ok")
                => rows = FileRows(FileOf(lastCsv[1])))
    /\ [][/\ Len(csvFetches') < Len(csvFetches) =>
                \E k \in 1..Len(csvFetches) :
                    /\ csvFetches' = Without(csvFetches, k)
                    /\ prevCsv' = lastCsv
                    /\ \/ /\ lastCsv' = Outcome(csvFetches[k], "ok")
                          /\ rows' = FileRows(csvFetches[k].file)
                       \/ /\ lastCsv' = Outcome(csvFetches[k], "failed")
                          /\ rows' = rows
          /\ Len(csvFetches') >= Len(csvFetches) =>
                /\ SubSeq(csvFetches', 1, Len(csvFetches)) = csvFetches
                /\ rows' = rows
         ]_vars

C26_Witness ==
    /\ Settled
    /\ csvFetches = << >>
    /\ selectedMap = Some("jump_a") /\ selectedClass = "Demo"
    /\ prevCsv = Outcome([map |-> "jump_a", class |-> "Demo"], "ok")
    /\ lastCsv = Outcome([map |-> "jump_a", class |-> "Solly"], "ok")
    /\ rows = FileRows("jump_a_Solly.csv")
    /\ rows # FileRows("jump_a_Demo.csv")
    /\ ~loading

(* C30: the loading flag is true in every state in which a CSV fetch is    *)
(* still outstanding, also after the first of two overlapping fetches has  *)
(* completed, and it is false once no fetch is outstanding.                *)
C30_LoadingWhileOutstanding ==
    /\ csvFetches # << >> => loading
    /\ csvFetches = << >> => ~loading

----------------------------------------------------------------------------
(* The zone selection after the effects have settled                       *)

(* The ids of the current zone options *)
OptionIds == {Options[k].id : k \in 1..Len(Options)}

(* An option that no other option ranks below *)
LowestRanked(option) ==
    \A k \in 1..Len(Options) : compareZones(option, Options[k]) <= 0

----------------------------------------------------------------------------
(* The CSV decoder: parseCsvRows and parseCsv.  A text is the sequence of  *)
(* its characters; a cell is a sequence of characters too.                 *)

Quote == "\""

(* row.some((cell) => cell.trim().length > 0) *)
SomeCellFilled(cells) == \E k \in 1..Len(cells) : Len(trim(cells[k])) > 0

(* Variant: a record of blank cells is kept *)
PushRow_KeepBlank(records, cells) == Append(records, cells)

(* if (row.some(...)) rows.push(row) *)
PushRow(records, cells) ==
    IF SomeCellFilled(cells) THEN Append(records, cells) ELSE records

(* The loop variables before the first character; i counts from 1 *)
CsvStart ==
    [rows |-> << >>, row |-> << >>, field |-> << >>, inQuotes |-> FALSE, i |-> 1]

(* Variant: a quote is an ordinary character, commas and line breaks       *)
(* always separate                                                         *)
CsvChar_NoQuoting(text, s) ==
    LET ch == text[s.i]
    IN  IF ch = "," THEN
            [s EXCEPT !.row = Append(@, s.field), !.field = << >>, !.i = @ + 1]
        ELSE IF ch = "\r" THEN [s EXCEPT !.i = @ + 1]
        ELSE IF ch = "\n" THEN
            [s EXCEPT !.rows = PushRow(@, Append(s.row, s.field)),
                      !.row = << >>, !.field = << >>, !.i = @ + 1]
        ELSE [s EXCEPT !.field = Append(@, ch), !.i = @ + 1]

(* One pass of the loop body at text[i], with the i++ of the loop *)
CsvChar(text, s) ==
    LET ch == text[s.i]
    IN  IF s.inQuotes THEN
            IF ch = Quote THEN
                IF s.i + 1 <= Len(text) /\ text[s.i + 1] = Quote
                THEN [s EXCEPT !.field = Append(@, Quote), !.i = @ + 2]
                ELSE [s EXCEPT !.inQuotes = FALSE, !.i = @ + 1]
            ELSE [s EXCEPT !.field = Append(@, ch), !.i = @ + 1]
        ELSE IF ch = Quote THEN [s EXCEPT !.inQuotes = TRUE, !.i = @ + 1]
        ELSE IF ch = "," THEN
            [s EXCEPT !.row = Append(@, s.field), !.field = << >>, !.i = @ + 1]
        ELSE IF ch = "\r" THEN [s EXCEPT !.i = @ + 1]
        ELSE IF ch = "\n" THEN
            [s EXCEPT !.rows = PushRow(@, Append(s.row, s.field)),
                      !.row = << >>, !.field = << >>, !.i = @ + 1]
        ELSE [s EXCEPT !.field = Append(@, ch), !.i = @ + 1]

(* for (let i = 0; i < text.length; i++): the loop from the variables s *)
RECURSIVE CsvLoop(_, _)
CsvLoop(text, s) ==
    IF s.i > Len(text) THEN s ELSE CsvLoop(text, CsvChar(text, s))

(* The code after the loop *)
CsvFinish(s) ==
    IF Len(s.field) > 0 \/ Len(s.row) > 0
    THEN PushRow(s.rows, Append(s.row, s.field))
    ELSE s.rows

(* Variant: a field left open at the end of the text is discarded *)
parseCsvRows_Strict(text) ==
    LET s == CsvLoop(text, CsvStart)
    IN  IF s.inQuotes THEN CsvFinish([s EXCEPT !.field = << >>])
        ELSE CsvFinish(s)

parseCsvRows(text) == CsvFinish(CsvLoop(text, CsvStart))

(* headers.forEach((header, index) => { row[header] = cells[index] ?? '' }) *)
(* the keys are the header names, a later column of the same name          *)
(* overwrites an earlier one                                               *)
RowObject(headers, cells) ==
    [header \in {headers[k] : k \in 1..Len(headers)} |->
        LET column == CHOOSE k \in 1..Len(headers) :
                        /\ headers[k] = header
                        /\ \A n \in (k + 1)..Len(headers) : headers[n] # header
        IN  IF column <= Len(cells) THEN cells[column] ELSE << >>]

(* Variant: a column without a cell gets no key *)
parseCsv_NoDefault(text) ==
    LET records == parseCsvRows(text)
    IN  IF Len(records) <= 1 THEN << >>
        ELSE [n \in 1..(Len(records) - 1) |->
                 RowObject(SubSeq(records[1], 1, Len(records[n + 1])),
                           records[n + 1])]

(* Variant: the header record is a row as well *)
parseCsv_HeaderIsRow(text) ==
    LET records == parseCsvRows(text)
    IN  [n \in 1..Len(records) |-> RowObject(records[1], records[n])]

parseCsv(text) ==
    LET records == parseCsvRows(text)
    IN  IF Len(records) <= 1 THEN << >>
        ELSE [n \in 1..(Len(records) - 1) |->
                 RowObject(records[1], records[n + 1])]

(* The characters of the input texts *)
CsvChars == {"a", ",", Quote, "\n", "\r", " "}

(* A text of up to MaxCsvLen characters, nothing called yet *)
InitCsv ==
    /\ TimelineIdle
    /\ AppInitial(NoHash)
    /\ called = ""
    /\ \E n \in 0..MaxCsvLen : args \in [1..n -> CsvChars]
    /\ result = << >>

(* parseCsvRows(text) *)
ParseCsvRows ==
    /\ called = ""
    /\ called' = "parseCsvRows"
    /\ result' = parseCsvRows(args)
    /\ UNCHANGED <<args, timelineVars, appVars>>

(* parseCsv(text) *)
ParseCsv ==
    /\ called = ""
    /\ called' = "parseCsv"
    /\ result' = parseCsv(args)
    /\ UNCHANGED <<args, timelineVars, appVars>>

(* The timeline memo entered with the rows decoded from a text that gave   *)
(* none                                                                    *)
TimelineOfNoRows ==
    /\ called = "parseCsv" /\ result = << >>
    /\ pc = "idle"
    /\ filtered' = result
    /\ pc' = "start"
    /\ UNCHANGED <<points, idx, current, timeline, i, maxWipeBoundary, run,
                   firstTimeline, callVars, appVars>>

NextCsv ==
    \/ ParseCsvRows
    \/ ParseCsv
    \/ TimelineOfNoRows
    \/ BuildPoints
    \/ StartBackward
    \/ Return

SpecCsv == InitCsv /\ [][NextCsv]_vars

----------------------------------------------------------------------------
(* Properties of the CSV decoder                                           *)

(* The records of the text of the call *)
Records == parseCsvRows(args)

(* C21 as stated: every row maps every header name of the first line to    *)
(* the cell at the header's position, or to the empty string when the      *)
(* record has fewer cells than the header; no header key is missing and    *)
(* cells beyond the header count are discarded.                            *)
C21_CellAtHeaderPosition ==
    called = "parseCsv" =>
        \A n \in 1..Len(result) :
            /\ DOMAIN result[n] = {Records[1][k] : k \in 1..Len(Records[1])}
            /\ \A k \in 1..Len(Records[1]) :
                  result[n][Records[1][k]] =
                      IF k <= Len(Records[n + 1]) THEN Records[n + 1][k] ELSE << >>

(* C21, amended: every row has exactly the header names as its keys, each  *)
(* mapped to a string: the cell at the position of the header, the last    *)
(* such position when the name is repeated in the header, or the empty     *)
(* string when the record has no cell there; cells beyond the header count *)
(* are discarded.                                                          *)
C21_CellAtLastHeaderPosition ==
    called = "parseCsv" =>
        /\ Len(result) = Max(Len(Records) - 1, 0)
        /\ \A n \in 1..Len(result) :
              /\ DOMAIN result[n] = {Records[1][k] : k \in 1..Len(Records[1])}
              /\ \A k \in 1..Len(Records[1]) :
                    (\A later \in (k + 1)..Len(Records[1]) :
                        Records[1][later] # Records[1][k])
                    => result[n][Records[1][k]] =
                          IF k <= Len(Records[n + 1]) THEN Records[n + 1][k]
                          ELSE << >>

(* A record shorter than the header: the second column gets '' *)
C21_Witness ==
    /\ called = "parseCsv"
    /\ Len(result) = 1
    /\ Len(Records[1]) = 2 /\ Len(Records[2]) = 1
    /\ Records[1][1] # Records[1][2]
    /\ result[1][Records[1][1]] = <<"a">>
    /\ result[1][Records[1][2]] = << >>

(* The number of double quotes before position p *)
QuotesBefore(text, p) == Cardinality({k \in 1..(p - 1) : text[k] = Quote})

(* The physical lines: the number of line breaks before position p, and    *)
(* the lines with a character that is no whitespace                        *)
LineOf(text, p) == Cardinality({k \in 1..(p - 1) : text[k] = "\n"})

NonBlankLines(text) ==
    {LineOf(text, p) : p \in {k \in 1..Len(text) : ~IsSpace(text[k])}}

(* C22 as stated: the number of rows is the number of lines of the text    *)
(* minus one, blank lines not counted, the one subtracted being the header *)
(* line (no row for a text without lines).                                 *)
C22_RowsAreLinesMinusOne ==
    called = "parseCsv" =>
        Len(result) = Max(Cardinality(NonBlankLines(args)) - 1, 0)

(* A line break outside double quotes: an even number of quotes before it *)
EndsRecord(text, p) == text[p] = "\n" /\ QuotesBefore(text, p) % 2 = 0

RecordOf(text, p) == Cardinality({k \in 1..(p - 1) : EndsRecord(text, k)})

(* A character that makes a cell non-blank: an ordinary character, a comma *)
(* inside quotes, or a doubled quote inside quotes                         *)
FillsCell(text, p) ==
    \/ ~IsSpace(text[p]) /\ text[p] # "," /\ text[p] # Quote
    \/ text[p] = "," /\ QuotesBefore(text, p) % 2 = 1
    \/ /\ text[p] = Quote /\ QuotesBefore(text, p) % 2 = 1
       /\ p < Len(text) /\ text[p + 1] = Quote

FilledRecords(text) ==
    {RecordOf(text, p) : p \in {k \in 1..Len(text) : FillsCell(text, k)}}

(* C22, amended: the number of rows is the number of records of the text   *)
(* minus one for the header record, and zero for a text without records;   *)
(* records are separated by the line breaks outside double quotes, and a   *)
(* record whose cells are all empty or whitespace is not counted.          *)
C22_RowsAreRecordsMinusOne ==
    /\ called = "parseCsvRows" =>
          Len(result) = Cardinality(FilledRecords(args))
    /\ called = "parseCsv" =>
          Len(result) = Max(Cardinality(FilledRecords(args)) - 1, 0)

(* Three physical lines, one row: the line break inside the quotes belongs *)
(* to the cell                                                             *)
C22_Witness ==
    /\ called = "parseCsv"
    /\ args = <<"a", "\n", Quote, "\n", "a">>
    /\ Cardinality(NonBlankLines(args)) = 3
    /\ Len(result) = 1
    /\ result[1][<<"a">>] = <<"\n", "a">>

(* The n-th smallest element of a set of numbers *)
Nth(set, n) == CHOOSE x \in set : Cardinality({y \in set : y < x}) = n - 1

(* The character at position p becomes part of a cell: any character but a *)
(* quote inside quotes, the first quote of a doubled quote inside quotes,  *)
(* and outside quotes any character but a quote, a comma and a line break  *)
IsContent(text, p) ==
    LET quoted == QuotesBefore(text, p) % 2 = 1
    IN  IF text[p] = Quote
        THEN quoted /\ p < Len(text) /\ text[p + 1] = Quote
        ELSE quoted \/ text[p] \notin {",", "\n", "\r"}

(* The cell characters among positions lo..hi *)
RECURSIVE ContentOf(_, _, _)
ContentOf(text, lo, hi) ==
    IF lo > hi THEN << >>
    ELSE (IF IsContent(text, lo) THEN <<text[lo]>> ELSE << >>)
         \o ContentOf(text, lo + 1, hi)

(* The positions of record r of the text *)
PositionsOf(text, r) == {p \in 1..Len(text) : RecordOf(text, p) = r}

(* The commas outside quotes in record r of the text *)
CommasOf(text, r) ==
    Cardinality({p \in 1..Len(text) :
        /\ RecordOf(text, p) = r
        /\ text[p] = "," /\ QuotesBefore(text, p) % 2 = 0})

(* The cells of a record, one after the other *)
RECURSIVE Flatten(_)
Flatten(cells) == IF cells = << >> THEN << >> ELSE cells[1] \o Flatten(Tail(cells))

(* C23: inside a double-quoted field commas, line breaks and blank lines   *)
(* are field content, not separators, and each doubled quote becomes one   *)
(* literal quote; a comma or newline outside quotes always ends the field  *)
(* or record.  So the records are the stretches between the newlines       *)
(* outside quotes (those with a filled cell are kept), a record has one    *)
(* cell more than it has commas outside quotes, and its cells hold, in     *)
(* order, every quoted character, one quote per doubled quote, and every   *)
(* unquoted character that is no comma, line break or quote.               *)
C23_QuotedSeparatorsAreContent ==
    called = "parseCsvRows" =>
        /\ Len(result) = Cardinality(FilledRecords(args))
        /\ \A n \in 1..Len(result) :
              LET r == Nth(FilledRecords(args), n)
                  lo == CHOOSE p \in PositionsOf(args, r) :
                            \A q \in PositionsOf(args, r) : p <= q
                  hi == CHOOSE p \in PositionsOf(args, r) :
                            \A q \in PositionsOf(args, r) : p >= q
              IN  /\ Len(result[n]) = 1 + CommasOf(args, r)
                  /\ PositionsOf(args, r) = lo..hi
                  /\ Flatten(result[n]) = ContentOf(args, lo, hi)

(* A comma, a doubled quote and a line break inside one quoted field *)
C23_Witness ==
    /\ called = "parseCsvRows"
    /\ args = <<Quote, ",", Quote, Quote, "\n">>
    /\ result = << << <<",", Quote, "\n">> >> >>

(* C24: an input with zero or one non-dropped line (the empty text, or a   *)
(* header line only) decodes to zero rows, and the reconstructor applied   *)
(* to zero rows returns an empty timeline without error: each of its steps *)
(* can be taken and the timeline stays empty to the end.                   *)
C24_NoRowsNoTimeline ==
    /\ (called = "parseCsv" /\ Cardinality(FilledRecords(args)) <= 1)
          => result = << >>
    /\ (called = "parseCsv" /\ Len(Records) <= 1) => result = << >>
    /\ filtered = << >> =>
          /\ timeline = << >> /\ points = << >>
          /\ pc \in {"start", "forward", "backward"}
                => ENABLED (BuildPoints \/ StartBackward \/ Return)

(* The timeline of a header line without data rows *)
C24_Witness ==
    /\ called = "parseCsv"
    /\ args = <<"a", ",", "a", "\r", "\n">>
    /\ Len(Records) = 1
    /\ result = << >>
    /\ pc = "done"
    /\ timeline = << >>

(* The loop variables at the end of the text of the call *)
AtEnd == CsvLoop(args, CsvStart)

Last(list) == list[Len(list)]

(* C25 as stated: for a text that ends inside an unterminated quoted       *)
(* field, the characters read since the opening quote are kept as the last *)
(* field of the last record.                                               *)
C25_OpenFieldIsLastField ==
    (called = "parseCsvRows" /\ AtEnd.inQuotes) =>
        /\ result # << >>
        /\ Last(Last(result)) = AtEnd.field

(* The quote that opened the field the text ends in *)
OpeningQuote(text) ==
    CHOOSE p \in 1..Len(text) :
        /\ text[p] = Quote /\ QuotesBefore(text, p) % 2 = 0
        /\ (p > 1 => text[p - 1] # Quote \/ QuotesBefore(text, p - 1) % 2 = 0)
        /\ \A later \in (p + 1)..Len(text) :
              ~(/\ text[later] = Quote /\ QuotesBefore(text, later) % 2 = 0
                /\ (text[later - 1] # Quote
                       \/ QuotesBefore(text, later - 1) % 2 = 0))

IsSuffix(tail, list) ==
    /\ Len(tail) <= Len(list)
    /\ SubSeq(list, Len(list) - Len(tail) + 1, Len(list)) = tail

(* C25, amended: for any input text the decoder terminates without         *)
(* raising, and a text that ends inside an unterminated quoted field       *)
(* decodes as if the quote were closed at the end of the input: the        *)
(* characters read since the opening quote end the last field of the last  *)
(* record, unless all cells of that record are empty or whitespace, in     *)
(* which case the record is dropped like any blank record.                 *)
C25_ImplicitClosingQuote ==
    called = "parseCsvRows" =>
        /\ AtEnd.i = Len(args) + 1
        /\ AtEnd.inQuotes =>
              LET open == ContentOf(args, OpeningQuote(args) + 1, Len(args))
                  cells == Append(AtEnd.row, AtEnd.field)
              IN  /\ result = parseCsvRows(Append(args, Quote))
                  /\ IsSuffix(open, AtEnd.field)
                  /\ IF SomeCellFilled(cells)
                     THEN /\ result = Append(AtEnd.rows, cells)
                          /\ IsSuffix(open, Last(Last(result)))
                     ELSE result = AtEnd.rows

(* A header line, then a record that ends inside its quoted field *)
C25_Witness ==
    /\ called = "parseCsvRows"
    /\ args = <<"a", "\n", Quote, "a", ",">>
    /\ AtEnd.inQuotes
    /\ result = << << <<"a">> >>, << <<"a", ",">> >> >>

====
